---------------------------- MODULE Spec2Model ----------------------------
(***************************************************************************)
(* Model of pkg/models datasource_cache.go (src/unnamed/part_000): the     *)
(* per-data-source HTTP transport caches (ptc, ptc2), the decryption cache *)
(* (dsDecryptionCache), the TLS configuration builder, the custom header   *)
(* scan and the round tripper that injects the headers.                    *)
(*                                                                         *)
(* Strings of secret material are modelled as sequences of PEM blocks      *)
(* (tokens): <<>> is the empty string, "junk" is bytes that hold no PEM    *)
(* block, "certA"/"certB" are CERTIFICATE blocks and "keyA"/"keyB" the     *)
(* private keys that match them.                                           *)
(***************************************************************************)
EXTENDS Integers, Sequences, FiniteSets, TLC

(***************************************************************************)
(* Bounds of the model.                                                    *)
(***************************************************************************)
\* Calls a behaviour of Spec may start (the threads share the budget).
MaxCalls == 3
\* Highest index n for which httpHeaderName<n> / httpHeaderValue<n> may be set.
MaxHeaderIdx == 3

Threads == {"t1", "t2"}
NoThread == "none"

(***************************************************************************)
(* Values.                                                                 *)
(***************************************************************************)
DS_ES == "elasticsearch"
DS_ES_OPEN_DISTRO == "grafana-es-open-distro-datasource"
DS_PROMETHEUS == "prometheus"
DS_UNKNOWN == "unknown-plugin"

ErrCAParse == "failed to parse TLS CA PEM certificate"
ErrKeyPair == "tls: X509KeyPair failed"
ErrProvider == "provider.GetTransport failed"

CertBlocks == {"certA", "certB"}
KeyBlocks == {"keyA", "keyB"}

\* The private key that matches a certificate's public key.
KeyFor(cert) == IF cert = "certA" THEN "keyA" ELSE "keyB"

Range(s) == {s[i] : i \in DOMAIN s}

\* The empty Go map.
EmptyMap == [k \in {} |-> <<>>]

\* m[k] of a Go map[string]string: the zero value "" when k is absent.
MapGet(m, k) == IF k \in DOMAIN m THEN m[k] ELSE <<>>

\* m[k] = v of a Go map.
MapPut(m, k, v) == [x \in (DOMAIN m) \cup {k} |-> IF x = k THEN v ELSE m[x]]

(***************************************************************************)
(* SecureJsonData: a map of encrypted values; Decrypt returns the map of   *)
(* the plaintexts.                                                         *)
(***************************************************************************)
Encrypt(plain) == [k \in DOMAIN plain |-> <<"enc", plain[k]>>]

Decrypt(secure) == [k \in DOMAIN secure |-> secure[k][2]]

(***************************************************************************)
(* fmt.Sprintf("httpHeaderName%d", index) and                               *)
(* fmt.Sprintf("httpHeaderValue%d", index), tabulated.                     *)
(***************************************************************************)
HeaderNameKeys ==
    <<"httpHeaderName1", "httpHeaderName2", "httpHeaderName3",
      "httpHeaderName4", "httpHeaderName5", "httpHeaderName6">>

HeaderValueKeys ==
    <<"httpHeaderValue1", "httpHeaderValue2", "httpHeaderValue3",
      "httpHeaderValue4", "httpHeaderValue5", "httpHeaderValue6">>

headerNameSuffix(index) ==
    IF index \in DOMAIN HeaderNameKeys THEN HeaderNameKeys[index] ELSE "httpHeaderNameN"

headerValueSuffix(index) ==
    IF index \in DOMAIN HeaderValueKeys THEN HeaderValueKeys[index] ELSE "httpHeaderValueN"

(***************************************************************************)
(* A data source.  json is JsonData (jsonNil: the pointer is nil): its     *)
(* boolean and string settings, and hdr, the map of its httpHeaderName<n>  *)
(* entries.  secure is SecureJsonData.                                     *)
(***************************************************************************)
\* The "timeout" entry of JsonData: absent, a JSON integer, or a JSON value
\* that is not a number (a string, here).
NoTimeout == <<"absent">>

JsonData(tlsAuth, tlsAuthWithCACert, sigV4Auth, hdr) ==
    [tlsAuth |-> tlsAuth, tlsAuthWithCACert |-> tlsAuthWithCACert,
     tlsSkipVerify |-> FALSE, serverName |-> "", sigV4Auth |-> sigV4Auth,
     hdr |-> hdr, timeout |-> NoTimeout]

NoJson == JsonData(FALSE, FALSE, FALSE, EmptyMap)

DataSource(id, updated, type, jsonNil, json, plain) ==
    [Id |-> id, Updated |-> updated, Type |-> type, jsonNil |-> jsonNil,
     json |-> json, secure |-> Encrypt(plain)]

\* ds.JsonData.Get(key).MustString() for a header name: "" when the key is absent.
MustString(hdr, key) == IF key \in DOMAIN hdr THEN hdr[key] ELSE ""

\* ds.JsonData.Get("timeout").MustInt(): 0 when the entry is absent or not a number.
MustInt(v) == IF v[1] = "int" THEN v[2] ELSE 0

(***************************************************************************)
(* x509.CertPool.AppendCertsFromPEM: adds every CERTIFICATE block of the   *)
(* bytes to the pool; ok iff at least one certificate was added.           *)
(***************************************************************************)
AppendCertsFromPEM(pool, pem) ==
    LET found == Range(pem) \cap CertBlocks
    IN  [ok |-> found # {}, pool |-> pool \cup found]

(***************************************************************************)
(* tls.X509KeyPair: fails when the certificate bytes hold no CERTIFICATE   *)
(* block, the key bytes hold no private key block, or the first key does   *)
(* not match the leaf (first) certificate.                                 *)
(***************************************************************************)
X509KeyPair(certPEM, keyPEM) ==
    LET certs == SelectSeq(certPEM, LAMBDA b : b \in CertBlocks)
        keys  == SelectSeq(keyPEM, LAMBDA b : b \in KeyBlocks)
    IN  IF certs = <<>> \/ keys = <<>> \/ KeyFor(certs[1]) # keys[1]
        THEN [err |-> ErrKeyPair, cert |-> <<>>]
        ELSE [err |-> "", cert |-> <<certs, keys[1]>>]

(***************************************************************************)
(* tls.Config.  RootCAs = NilPool is Go's nil: the host's default trust    *)
(* store is used.                                                          *)
(***************************************************************************)
NilPool == [nil |-> TRUE, certs |-> {}]

NoTLSConfig ==
    [InsecureSkipVerify |-> FALSE, ServerName |-> "", RootCAs |-> NilPool,
     Certificates |-> <<>>, Renegotiation |-> "RenegotiateNever"]

\* GetTLSConfig's guards read JsonData only when it is not nil.
tlsClientAuth(ds) == ~ds.jsonNil /\ ds.json.tlsAuth
tlsAuthWithCACert(ds) == ~ds.jsonNil /\ ds.json.tlsAuthWithCACert
tlsSkipVerify(ds) == ~ds.jsonNil /\ ds.json.tlsSkipVerify
serverName(ds) == IF ds.jsonNil THEN "" ELSE ds.json.serverName

\* Mutant: the result of AppendCertsFromPEM is not tested.
GetTLSConfigIgnoresParse(ds) ==
    LET base == [NoTLSConfig EXCEPT !.InsecureSkipVerify = tlsSkipVerify(ds),
                                    !.ServerName = serverName(ds)]
        decrypted == Decrypt(ds.secure)
        ca == AppendCertsFromPEM({}, MapGet(decrypted, "tlsCACert"))
        useCA == tlsAuthWithCACert(ds) /\ Len(MapGet(decrypted, "tlsCACert")) > 0
        pair == X509KeyPair(MapGet(decrypted, "tlsClientCert"),
                            MapGet(decrypted, "tlsClientKey"))
        withCA == IF useCA
                  THEN [base EXCEPT !.RootCAs = [nil |-> FALSE, certs |-> ca.pool]]
                  ELSE base
    IN  IF ~(tlsClientAuth(ds) \/ tlsAuthWithCACert(ds))
        THEN [err |-> "", cfg |-> base, ndec |-> 0]
        ELSE IF tlsClientAuth(ds) /\ pair.err # ""
        THEN [err |-> pair.err, cfg |-> NoTLSConfig, ndec |-> 1]
        ELSE IF tlsClientAuth(ds)
        THEN [err |-> "", cfg |-> [withCA EXCEPT !.Certificates = <<pair.cert>>],
              ndec |-> 1]
        ELSE [err |-> "", cfg |-> withCA, ndec |-> 1]

\* Mutant: the client key pair is parsed before the CA bundle.
GetTLSConfigPairFirst(ds) ==
    LET base == [NoTLSConfig EXCEPT !.InsecureSkipVerify = tlsSkipVerify(ds),
                                    !.ServerName = serverName(ds)]
        decrypted == Decrypt(ds.secure)
        ca == AppendCertsFromPEM({}, MapGet(decrypted, "tlsCACert"))
        useCA == tlsAuthWithCACert(ds) /\ Len(MapGet(decrypted, "tlsCACert")) > 0
        pair == X509KeyPair(MapGet(decrypted, "tlsClientCert"),
                            MapGet(decrypted, "tlsClientKey"))
        withCA == IF useCA
                  THEN [base EXCEPT !.RootCAs = [nil |-> FALSE, certs |-> ca.pool]]
                  ELSE base
    IN  IF ~(tlsClientAuth(ds) \/ tlsAuthWithCACert(ds))
        THEN [err |-> "", cfg |-> base, ndec |-> 0]
        ELSE IF tlsClientAuth(ds) /\ pair.err # ""
        THEN [err |-> pair.err, cfg |-> NoTLSConfig, ndec |-> 1]
        ELSE IF useCA /\ ~ca.ok
        THEN [err |-> ErrCAParse, cfg |-> NoTLSConfig, ndec |-> 1]
        ELSE IF tlsClientAuth(ds)
        THEN [err |-> "", cfg |-> [withCA EXCEPT !.Certificates = <<pair.cert>>],
              ndec |-> 1]
        ELSE [err |-> "", cfg |-> withCA, ndec |-> 1]

\* Mutant: the flags are not consulted; the secrets are always decrypted and
\* whatever material is there is parsed.
GetTLSConfigIgnoresFlags(ds) ==
    LET base == [NoTLSConfig EXCEPT !.InsecureSkipVerify = tlsSkipVerify(ds),
                                    !.ServerName = serverName(ds)]
        decrypted == Decrypt(ds.secure)
        ca == AppendCertsFromPEM({}, MapGet(decrypted, "tlsCACert"))
        useCA == Len(MapGet(decrypted, "tlsCACert")) > 0
        usePair == Len(MapGet(decrypted, "tlsClientCert")) > 0
        pair == X509KeyPair(MapGet(decrypted, "tlsClientCert"),
                            MapGet(decrypted, "tlsClientKey"))
        withCA == IF useCA
                  THEN [base EXCEPT !.RootCAs = [nil |-> FALSE, certs |-> ca.pool]]
                  ELSE base
    IN  IF useCA /\ ~ca.ok
        THEN [err |-> ErrCAParse, cfg |-> NoTLSConfig, ndec |-> 1]
        ELSE IF usePair /\ pair.err # ""
        THEN [err |-> pair.err, cfg |-> NoTLSConfig, ndec |-> 1]
        ELSE IF usePair
        THEN [err |-> "", cfg |-> [withCA EXCEPT !.Certificates = <<pair.cert>>],
              ndec |-> 1]
        ELSE [err |-> "", cfg |-> withCA, ndec |-> 1]

(***************************************************************************)
(* DataSource.GetTLSConfig: [err, cfg, ndec]; err = "" is a nil error,     *)
(* ndec counts the calls of SecureJsonData.Decrypt.                        *)
(***************************************************************************)
GetTLSConfig(ds) ==
    LET base == [NoTLSConfig EXCEPT !.InsecureSkipVerify = tlsSkipVerify(ds),
                                    !.ServerName = serverName(ds)]
        decrypted == Decrypt(ds.secure)
        ca == AppendCertsFromPEM({}, MapGet(decrypted, "tlsCACert"))
        useCA == tlsAuthWithCACert(ds) /\ Len(MapGet(decrypted, "tlsCACert")) > 0
        pair == X509KeyPair(MapGet(decrypted, "tlsClientCert"),
                            MapGet(decrypted, "tlsClientKey"))
        withCA == IF useCA
                  THEN [base EXCEPT !.RootCAs = [nil |-> FALSE, certs |-> ca.pool]]
                  ELSE base
    IN  IF ~(tlsClientAuth(ds) \/ tlsAuthWithCACert(ds))
        THEN [err |-> "", cfg |-> base, ndec |-> 0]
        ELSE IF useCA /\ ~ca.ok
        THEN [err |-> ErrCAParse, cfg |-> NoTLSConfig, ndec |-> 1]
        ELSE IF tlsClientAuth(ds) /\ pair.err # ""
        THEN [err |-> pair.err, cfg |-> NoTLSConfig, ndec |-> 1]
        ELSE IF tlsClientAuth(ds)
        THEN [err |-> "", cfg |-> [withCA EXCEPT !.Certificates = <<pair.cert>>],
              ndec |-> 1]
        ELSE [err |-> "", cfg |-> withCA, ndec |-> 1]

\* Mutant: an absent or empty name is skipped and the scan goes on.
RECURSIVE scanHeadersSkipsGaps(_, _, _, _)
scanHeadersSkipsGaps(hdr, decrypted, index, headers) ==
    LET key == MustString(hdr, headerNameSuffix(index))
    IN  IF index > Len(HeaderNameKeys)
        THEN headers
        ELSE IF key = ""
        THEN scanHeadersSkipsGaps(hdr, decrypted, index + 1, headers)
        ELSE scanHeadersSkipsGaps(hdr, decrypted, index + 1,
                                  IF headerValueSuffix(index) \in DOMAIN decrypted
                                  THEN MapPut(headers, key, decrypted[headerValueSuffix(index)])
                                  ELSE headers)

\* Mutant: a name without a value ends the scan like a missing name.
RECURSIVE scanHeadersStopsOnMissingValue(_, _, _, _)
scanHeadersStopsOnMissingValue(hdr, decrypted, index, headers) ==
    LET key == MustString(hdr, headerNameSuffix(index))
    IN  IF key = "" \/ headerValueSuffix(index) \notin DOMAIN decrypted
        THEN headers
        ELSE scanHeadersStopsOnMissingValue(
                 hdr, decrypted, index + 1,
                 MapPut(headers, key, decrypted[headerValueSuffix(index)]))

\* Mutant: a name that has a value already keeps it.
RECURSIVE scanHeadersFirstWins(_, _, _, _)
scanHeadersFirstWins(hdr, decrypted, index, headers) ==
    LET key == MustString(hdr, headerNameSuffix(index))
    IN  IF key = ""
        THEN headers
        ELSE scanHeadersFirstWins(
                 hdr, decrypted, index + 1,
                 IF headerValueSuffix(index) \in DOMAIN decrypted /\ key \notin DOMAIN headers
                 THEN MapPut(headers, key, decrypted[headerValueSuffix(index)])
                 ELSE headers)

(***************************************************************************)
(* DataSource.getCustomHeaders: the loop over index = 1, 2, ...            *)
(***************************************************************************)
RECURSIVE scanHeaders(_, _, _, _)
scanHeaders(hdr, decrypted, index, headers) ==
    LET key == MustString(hdr, headerNameSuffix(index))
    IN  IF key = ""
        THEN headers
        ELSE scanHeaders(hdr, decrypted, index + 1,
                         IF headerValueSuffix(index) \in DOMAIN decrypted
                         THEN MapPut(headers, key, decrypted[headerValueSuffix(index)])
                         ELSE headers)

getCustomHeaders(ds) ==
    IF ds.jsonNil THEN EmptyMap
    ELSE scanHeaders(ds.json.hdr, Decrypt(ds.secure), 1, EmptyMap)

\* Calls of SecureJsonData.Decrypt made by getCustomHeaders.
getCustomHeadersDecrypts(ds) == IF ds.jsonNil THEN 0 ELSE 1

\* Mutant: the default case returns the empty namespace instead of panicking.
awsServiceNamespaceNoPanic(dsType) ==
    CASE dsType \in {DS_ES, DS_ES_OPEN_DISTRO} -> "es"
      [] dsType = DS_PROMETHEUS -> "aps"
      [] OTHER -> ""

\* Mutant: the open-distro variant is missing from the first case.
awsServiceNamespaceESOnly(dsType) ==
    CASE dsType = DS_ES -> "es"
      [] dsType = DS_PROMETHEUS -> "aps"
      [] OTHER -> "panic"

(***************************************************************************)
(* awsServiceNamespace: "panic" stands for the panic of the default case.  *)
(***************************************************************************)
awsServiceNamespace(dsType) ==
    CASE dsType \in {DS_ES, DS_ES_OPEN_DISTRO} -> "es"
      [] dsType = DS_PROMETHEUS -> "aps"
      [] OTHER -> "panic"

(***************************************************************************)
(* DataSource.getTimeout, in seconds, and the process setting it falls     *)
(* back to.                                                                *)
(***************************************************************************)
VARIABLE DataProxyTimeout

\* Mutant: the test for zero is missing, a zero timeout is returned as it is.
getTimeoutNoDefault(ds) ==
    IF ~ds.jsonNil THEN MustInt(ds.json.timeout) ELSE 0

getTimeout(ds) ==
    LET timeout == IF ~ds.jsonNil THEN MustInt(ds.json.timeout) ELSE 0
    IN  IF timeout = 0 THEN DataProxyTimeout ELSE timeout

(***************************************************************************)
(* The signing guards.  GetHttpTransport also asks the process setting     *)
(* setting.SigV4AuthEnabled; HTTPClientOptions does not.                   *)
(***************************************************************************)
sigV4Auth(ds) == ~ds.jsonNil /\ ds.json.sigV4Auth

NoSigV4 == [on |-> FALSE, Service |-> "", AccessKey |-> <<>>, SecretKey |-> <<>>]

\* sigv4.Config built by sigV4Middleware from the decrypted map.
sigV4Config(ds, decrypted) ==
    [on |-> TRUE, Service |-> awsServiceNamespace(ds.Type),
     AccessKey |-> MapGet(decrypted, "sigV4AccessKey"),
     SecretKey |-> MapGet(decrypted, "sigV4SecretKey")]

(***************************************************************************)
(* Handlers.  hid is the identity of the instance (the pointer); hid = 0   *)
(* is nil.  A dataSourceTransport carries its headers, the TLS config of   *)
(* its http.Transport and the signer that is its next round tripper.       *)
(***************************************************************************)
NoHandler ==
    [hid |-> 0, kind |-> "nil", headers |-> EmptyMap, tls |-> NoTLSConfig,
     sigv4 |-> NoSigV4, timeout |-> 0]

\* timeout: the Timeout of the transport's net.Dialer (line 103), in seconds.
dataSourceTransport(hid, headers, tlsConfig, signer, timeout) ==
    [hid |-> hid, kind |-> "dataSourceTransport", headers |-> headers,
     tls |-> [tlsConfig EXCEPT !.Renegotiation = "RenegotiateFreelyAsClient"],
     sigv4 |-> signer, timeout |-> timeout]

(***************************************************************************)
(* httpclient.Options as HTTPClientOptions fills them, and the round       *)
(* tripper the provider builds from them.                                  *)
(***************************************************************************)
NoTLSOptions ==
    [InsecureSkipVerify |-> FALSE, ServerName |-> "", CACertificate |-> <<>>,
     ClientCertificate |-> <<>>, ClientKey |-> <<>>]

NoOptions ==
    [Headers |-> EmptyMap, TLS |-> NoTLSOptions, SigV4 |-> NoSigV4, Timeout |-> 0]

\* The options before any DecryptedValue call: lines 183-199 and 239-253.
initialOptions(ds) ==
    [Headers |-> getCustomHeaders(ds),
     TLS |-> [NoTLSOptions EXCEPT !.InsecureSkipVerify = tlsSkipVerify(ds),
                                  !.ServerName = serverName(ds)],
     SigV4 |-> NoSigV4,
     Timeout |-> getTimeout(ds)]

\* The DecryptedValue calls of TLSOptions and HTTPClientOptions, in order, with
\* the call of awsServiceNamespace (line 219) between them.  The data sources
\* of the model have BasicAuth = false and User = "".
optionSteps(ds) ==
    (IF tlsAuthWithCACert(ds) THEN <<"tlsCACert">> ELSE <<>>)
    \o (IF tlsClientAuth(ds) THEN <<"tlsClientCert", "tlsClientKey">> ELSE <<>>)
    \o (IF sigV4Auth(ds)
        THEN <<"awsServiceNamespace", "sigV4AccessKey", "sigV4SecretKey">>
        ELSE <<>>)

\* What one DecryptedValue(key) result does to the options.
setOption(o, key, json) ==
    LET exists == key \in DOMAIN json
        val == MapGet(json, key)
    IN  CASE key = "tlsCACert" ->
               IF exists /\ Len(val) > 0 THEN [o EXCEPT !.TLS.CACertificate = val] ELSE o
          [] key = "tlsClientCert" ->
               IF exists /\ Len(val) > 0 THEN [o EXCEPT !.TLS.ClientCertificate = val] ELSE o
          [] key = "tlsClientKey" ->
               IF exists /\ Len(val) > 0 THEN [o EXCEPT !.TLS.ClientKey = val] ELSE o
          [] key = "sigV4AccessKey" ->
               IF exists THEN [o EXCEPT !.SigV4.AccessKey = val] ELSE o
          [] key = "sigV4SecretKey" ->
               IF exists THEN [o EXCEPT !.SigV4.SecretKey = val] ELSE o
          [] OTHER -> o

roundTripper2(hid, o) ==
    [hid |-> hid, kind |-> "provider", headers |-> o.Headers, tls |-> o.TLS,
     sigv4 |-> o.SigV4, timeout |-> o.Timeout]

(***************************************************************************)
(* The state.                                                              *)
(***************************************************************************)
VARIABLES
    ptc,                \* ptc.cache: Id -> cachedTransport
    ptc2,               \* ptc2.cache: Id -> cachedRoundTripper2
    dsDecryptionCache,  \* dsDecryptionCache.cache: Id -> cachedDecryptedJSON
    ptcLock,            \* the holder of ptc.Mutex
    ptc2Lock,           \* the holder of ptc2.Mutex
    decLock,            \* the holder of dsDecryptionCache.Mutex
    SigV4AuthEnabled,   \* setting.SigV4AuthEnabled
    pc,                 \* where each thread is in its call
    op,                 \* the function each thread called
    arg,                \* the data source it called it on
    res,                \* what the call returned
    pending,            \* the steps of HTTPClientOptions still to run
    opts,               \* the httpclient.Options filled so far
    nextH,              \* the next fresh handler instance
    calls,              \* calls started so far
    buildLog,           \* per cache and id, the builds run: timestamp and outcome
    decLog,             \* per id, the lookups and clears of dsDecryptionCache
    sent                \* the headers of the last request passed to next

vars ==
    <<ptc, ptc2, dsDecryptionCache, ptcLock, ptc2Lock, decLock, SigV4AuthEnabled,
      DataProxyTimeout,
      pc, op, arg, res, pending, opts, nextH, calls, buildLog, decLog, sent>>

Ids == {1, 2}
Caches == {"ptc", "ptc2"}

\* built: the call missed the cache and ran the build; ndec: its calls of
\* Decrypt; concurrent: another thread was inside the same function when the
\* call started.
NoClient == [set |-> FALSE, Timeout |-> 0, Transport |-> 0]

\* client: the http.Client GetHttpClient / GetHttpClient2 returned.
\* clears: the calls of ClearDSDecryptionCache that had returned when the call
\* started; keyDecrypts: the calls of Decrypt made by the lookups of the
\* signing keys.
NoRes ==
    [kind |-> "none", h |-> NoHandler, err |-> "", built |-> FALSE, ndec |-> 0,
     json |-> EmptyMap, concurrent |-> FALSE, client |-> NoClient, clears |-> 0,
     keyDecrypts |-> 0]

\* The calls of ClearDSDecryptionCache that have returned.
clearsSoFar ==
    Cardinality({j \in DOMAIN decLog[1] : decLog[1][j].kind = "clear"})

\* What a round tripper returns: a response (resp, its status code; 0 is the
\* nil response) or an error (err; "" is the nil error).
NoResult == [resp |-> 0, err |-> ""]

\* req: the headers of the request as the caller passed it; headers: as next got
\* it; next: the round tripper it was passed to; nextCalls: the calls of
\* next.RoundTrip; nextResult: what the last of them returned; result: what
\* RoundTrip returned to its caller.
NoReq ==
    [sent |-> FALSE, req |-> EmptyMap, headers |-> EmptyMap, next |-> "none",
     nextCalls |-> 0, nextResult |-> NoResult, result |-> NoResult]

\* Mutant: the lookup tests presence only and never compares the timestamps.
cacheHitPresentOnly(cache, ds) == ds.Id \in DOMAIN cache

\* Mutant: the lookup always misses.
cacheHitNever(cache, ds) == FALSE

\* Mutant: the timestamps are compared by order, an entry at least as new as
\* the caller's snapshot is taken as valid.
cacheHitNotOlder(cache, ds) == ds.Id \in DOMAIN cache /\ ds.Updated <= cache[ds.Id].updated

\* present && ds.Updated.Equal(t.updated)
cacheHit(cache, ds) == ds.Id \in DOMAIN cache /\ ds.Updated = cache[ds.Id].updated

logBuild(cache, ds, outcome, hid) ==
    [buildLog EXCEPT ![cache][ds.Id] =
        Append(@, [updated |-> ds.Updated, outcome |-> outcome, hid |-> hid,
                   clears |-> clearsSoFar])]

(***************************************************************************)
(* The data sources the callers of Spec pass.  plainA and plainB have the  *)
(* same configuration and differ in Updated only.                          *)
(***************************************************************************)
hdrOne == ("httpHeaderName1" :> "X-A")
secOne == ("httpHeaderValue1" :> <<"v1">>)
secSig ==
    ("tlsCACert" :> <<"certA">>) @@ ("sigV4AccessKey" :> <<"ak">>)
    @@ ("sigV4SecretKey" :> <<"sk">>)

plainA == DataSource(1, 1, DS_PROMETHEUS, FALSE, JsonData(FALSE, FALSE, FALSE, hdrOne), secOne)
plainB == DataSource(1, 2, DS_PROMETHEUS, FALSE, JsonData(FALSE, FALSE, FALSE, hdrOne), secOne)
badCA ==
    DataSource(1, 2, DS_PROMETHEUS, FALSE, JsonData(FALSE, TRUE, FALSE, EmptyMap),
               ("tlsCACert" :> <<"junk">>))
signedES == DataSource(2, 1, DS_ES, FALSE, JsonData(FALSE, TRUE, TRUE, EmptyMap), secSig)
signedUnknown ==
    DataSource(2, 2, DS_UNKNOWN, FALSE, JsonData(FALSE, FALSE, TRUE, EmptyMap), secSig)

MainDS == {plainA, plainB, badCA, signedES, signedUnknown}

(***************************************************************************)
(* Init: nothing cached, no lock held, every thread idle.                  *)
(***************************************************************************)
InitShared ==
    /\ ptc = EmptyMap
    /\ ptc2 = EmptyMap
    /\ dsDecryptionCache = EmptyMap
    /\ ptcLock = NoThread
    /\ ptc2Lock = NoThread
    /\ decLock = NoThread
    /\ SigV4AuthEnabled \in BOOLEAN
    /\ res = [t \in Threads |-> NoRes]
    /\ pending = [t \in Threads |-> <<>>]
    /\ opts = [t \in Threads |-> NoOptions]
    /\ nextH = 1
    /\ buildLog = [c \in Caches |-> [i \in Ids |-> <<>>]]
    /\ decLog = [i \in Ids |-> <<>>]
    /\ sent = [t \in Threads |-> NoReq]

\* The default of setting.DataProxyTimeout.
DefaultTimeout == 30

Init ==
    /\ InitShared
    /\ DataProxyTimeout = DefaultTimeout
    /\ pc = [t \in Threads |-> "idle"]
    /\ op = [t \in Threads |-> "none"]
    /\ arg = [t \in Threads |-> plainA]
    /\ calls = 0

Ops ==
    {"GetHttpTransport", "GetHttpTransport2", "GetHttpClient", "GetHttpClient2",
     "DecryptedValues", "ClearDSDecryptionCache"}

\* The first program point of a call.
entry(o) ==
    CASE o \in {"GetHttpTransport", "GetHttpClient"} -> "v1_lock"
      [] o \in {"GetHttpTransport2", "GetHttpClient2"} -> "v2_lock"
      [] o = "DecryptedValues" -> "dv_lock"
      [] OTHER -> "clear_lock"

\* A thread calls o on data source d.
Call(t, o, d) ==
    /\ pc[t] \in {"idle", "done"}
    /\ calls < MaxCalls
    /\ calls' = calls + 1
    /\ pc' = [pc EXCEPT ![t] = entry(o)]
    /\ op' = [op EXCEPT ![t] = o]
    /\ arg' = [arg EXCEPT ![t] = d]
    /\ res' = [res EXCEPT ![t] =
                  [NoRes EXCEPT !.concurrent =
                      \E u \in Threads \ {t} :
                          op[u] = o /\ pc[u] \notin {"idle", "done", "off"},
                                !.clears = clearsSoFar]]
    /\ sent' = [sent EXCEPT ![t] = NoReq]
    /\ UNCHANGED <<ptc, ptc2, dsDecryptionCache, ptcLock, ptc2Lock, decLock,
                   SigV4AuthEnabled, DataProxyTimeout, pending, opts, nextH, buildLog, decLog>>

\* Where a thread goes when the transport function returns: back into
\* GetHttpClient / GetHttpClient2 when one of them made the call.
afterTransport(t) ==
    IF op[t] \in {"GetHttpClient", "GetHttpClient2"} THEN "client_ret" ELSE "done"

\* GetHttpClient and GetHttpClient2 after the transport call: nil and the
\* error, or the client with Timeout: ds.getTimeout().
GetHttpClient(t) ==
    /\ pc[t] = "client_ret"
    /\ res' = [res EXCEPT ![t] =
                  IF @.kind = "ok"
                  THEN [@ EXCEPT !.client = [set |-> TRUE, Timeout |-> getTimeout(arg[t]),
                                             Transport |-> res[t].h.hid]]
                  ELSE @]
    /\ pc' = [pc EXCEPT ![t] = "done"]
    /\ UNCHANGED <<ptc, ptc2, dsDecryptionCache, ptcLock, ptc2Lock, decLock,
                   SigV4AuthEnabled, DataProxyTimeout, decLog, op, arg, pending, opts,
                   nextH, calls, buildLog, sent>>

\* Mutant: the decrypted map is returned and never stored.
DecryptedValuesBodyNoStore(cache, ds) ==
    IF cacheHit(cache, ds)
    THEN [json |-> cache[ds.Id].json, cache |-> cache, ndec |-> 0]
    ELSE [json |-> Decrypt(ds.secure), cache |-> cache, ndec |-> 1]

(***************************************************************************)
(* The body of DecryptedValues, run with dsDecryptionCache's lock held:    *)
(* the map returned, the cache afterwards and the calls of Decrypt.        *)
(***************************************************************************)
DecryptedValuesBody(cache, ds) ==
    IF cacheHit(cache, ds)
    THEN [json |-> cache[ds.Id].json, cache |-> cache, ndec |-> 0]
    ELSE [json |-> Decrypt(ds.secure),
          cache |-> MapPut(cache, ds.Id,
                           [updated |-> ds.Updated, json |-> Decrypt(ds.secure)]),
          ndec |-> 1]

logLookup(ds, dv) ==
    [decLog EXCEPT ![ds.Id] =
        Append(@, [kind |-> IF dv.ndec = 1 THEN "decrypt" ELSE "hit",
                   updated |-> ds.Updated])]

\* The calls of Decrypt, of the ndec a step made, that came from a lookup of
\* the signing keys: the DecryptedValues call of sigV4Middleware (line 276) and
\* the DecryptedValue calls of lines 227 and 231.
keyLookup(t, ndec) ==
    IF \/ pc[t] = "v1_sig"
       \/ pc[t] = "v2_dv" /\ Head(pending[t]) \in {"sigV4AccessKey", "sigV4SecretKey"}
    THEN ndec ELSE 0

(***************************************************************************)
(* GetHttpTransport.                                                       *)
(***************************************************************************)
\* Mutant: the handler is returned and never stored in ptc.cache.
V1StoreForgets(t, h, ndec) ==
    /\ res' = [res EXCEPT ![t] = [@ EXCEPT !.kind = "ok", !.h = h, !.ndec = @ + ndec,
                                            !.keyDecrypts = @ + keyLookup(t, ndec)]]
    /\ nextH' = nextH + 1
    /\ buildLog' = logBuild("ptc", arg[t], "ok", h.hid)
    /\ ptcLock' = NoThread
    /\ pc' = [pc EXCEPT ![t] = afterTransport(t)]
    /\ UNCHANGED ptc

\* Mutant: the store evicts the entries of the other ids.
V1StoreEvicts(t, h, ndec) ==
    /\ ptc' = MapPut(EmptyMap, arg[t].Id, [updated |-> arg[t].Updated, h |-> h])
    /\ res' = [res EXCEPT ![t] = [@ EXCEPT !.kind = "ok", !.h = h, !.ndec = @ + ndec,
                                            !.keyDecrypts = @ + keyLookup(t, ndec)]]
    /\ nextH' = nextH + 1
    /\ buildLog' = logBuild("ptc", arg[t], "ok", h.hid)
    /\ ptcLock' = NoThread
    /\ pc' = [pc EXCEPT ![t] = afterTransport(t)]

\* What returning with the handler stored does (lines 120-132).
V1Store(t, h, ndec) ==
    /\ ptc' = MapPut(ptc, arg[t].Id, [updated |-> arg[t].Updated, h |-> h])
    /\ res' = [res EXCEPT ![t] = [@ EXCEPT !.kind = "ok", !.h = h, !.ndec = @ + ndec,
                                            !.keyDecrypts = @ + keyLookup(t, ndec)]]
    /\ nextH' = nextH + 1
    /\ buildLog' = logBuild("ptc", arg[t], "ok", h.hid)
    /\ ptcLock' = NoThread
    /\ pc' = [pc EXCEPT ![t] = afterTransport(t)]

\* Mutant: the failure is stored, a nil handler under the call's timestamp.
V1FailCached(t, kind, err, ndec) ==
    /\ res' = [res EXCEPT ![t] = [@ EXCEPT !.kind = kind, !.err = err, !.ndec = @ + ndec,
                                            !.keyDecrypts = @ + keyLookup(t, ndec)]]
    /\ buildLog' = logBuild("ptc", arg[t], kind, 0)
    /\ ptc' = MapPut(ptc, arg[t].Id, [updated |-> arg[t].Updated, h |-> NoHandler])
    /\ ptcLock' = NoThread
    /\ pc' = [pc EXCEPT ![t] = afterTransport(t)]
    /\ UNCHANGED nextH

\* Mutant: a failing build drops the entry of its id, which it found stale.
V1FailEvicts(t, kind, err, ndec) ==
    /\ res' = [res EXCEPT ![t] = [@ EXCEPT !.kind = kind, !.err = err, !.ndec = @ + ndec,
                                            !.keyDecrypts = @ + keyLookup(t, ndec)]]
    /\ buildLog' = logBuild("ptc", arg[t], kind, 0)
    /\ ptc' = [x \in (DOMAIN ptc) \ {arg[t].Id} |-> ptc[x]]
    /\ ptcLock' = NoThread
    /\ pc' = [pc EXCEPT ![t] = afterTransport(t)]
    /\ UNCHANGED nextH

\* Mutant: the unlock is not deferred, a failing build returns with ptc locked.
V1FailKeepsLock(t, kind, err, ndec) ==
    /\ res' = [res EXCEPT ![t] = [@ EXCEPT !.kind = kind, !.err = err, !.ndec = @ + ndec,
                                            !.keyDecrypts = @ + keyLookup(t, ndec)]]
    /\ buildLog' = logBuild("ptc", arg[t], kind, 0)
    /\ pc' = [pc EXCEPT ![t] = afterTransport(t)]
    /\ UNCHANGED <<ptc, nextH, ptcLock>>

\* What returning nil and an error does (lines 91-93); kind "panic" is the
\* unwinding of a panic, which runs the deferred ptc.Unlock() as well.
V1Fail(t, kind, err, ndec) ==
    /\ res' = [res EXCEPT ![t] = [@ EXCEPT !.kind = kind, !.err = err, !.ndec = @ + ndec,
                                            !.keyDecrypts = @ + keyLookup(t, ndec)]]
    /\ buildLog' = logBuild("ptc", arg[t], kind, 0)
    /\ ptcLock' = NoThread
    /\ pc' = [pc EXCEPT ![t] = afterTransport(t)]
    /\ UNCHANGED <<ptc, nextH>>

\* Mutant: the lookup and the build run without waiting for ptc's lock.
V1_LockNoMutex(t) ==
    /\ pc[t] = "v1_lock"
    /\ IF cacheHit(ptc, arg[t])
       THEN /\ res' = [res EXCEPT ![t] = [@ EXCEPT !.kind = "ok", !.h = ptc[arg[t].Id].h]]
            /\ pc' = [pc EXCEPT ![t] = afterTransport(t)]
            /\ UNCHANGED ptcLock
       ELSE /\ res' = [res EXCEPT ![t] = [@ EXCEPT !.built = TRUE]]
            /\ pc' = [pc EXCEPT ![t] = "v1_build"]
            /\ ptcLock' = t
    /\ UNCHANGED <<ptc, ptc2, dsDecryptionCache, ptc2Lock, decLock, SigV4AuthEnabled, DataProxyTimeout, decLog,
                   op, arg, pending, opts, nextH, calls, buildLog, sent>>

\* ptc.Lock() and the cache lookup: a hit returns the cached handler.
V1_Lock(t) ==
    /\ pc[t] = "v1_lock"
    /\ ptcLock = NoThread
    /\ IF cacheHit(ptc, arg[t])
       THEN /\ res' = [res EXCEPT ![t] = [@ EXCEPT !.kind = "ok", !.h = ptc[arg[t].Id].h]]
            /\ pc' = [pc EXCEPT ![t] = afterTransport(t)]
            /\ UNCHANGED ptcLock
       ELSE /\ res' = [res EXCEPT ![t] = [@ EXCEPT !.built = TRUE]]
            /\ pc' = [pc EXCEPT ![t] = "v1_build"]
            /\ ptcLock' = t
    /\ UNCHANGED <<ptc, ptc2, dsDecryptionCache, ptc2Lock, decLock, SigV4AuthEnabled, DataProxyTimeout, decLog,
                   op, arg, pending, opts, nextH, calls, buildLog, sent>>

\* GetTLSConfig, getCustomHeaders and the transport; without signing, the store.
V1_Build(t) ==
    /\ pc[t] = "v1_build"
    /\ LET tlsRes == GetTLSConfig(arg[t])
           nd == tlsRes.ndec + getCustomHeadersDecrypts(arg[t])
       IN  IF tlsRes.err # ""
           THEN V1Fail(t, "err", tlsRes.err, tlsRes.ndec)
           ELSE IF sigV4Auth(arg[t]) /\ SigV4AuthEnabled
           THEN /\ res' = [res EXCEPT ![t] = [@ EXCEPT !.ndec = @ + nd]]
                /\ pc' = [pc EXCEPT ![t] = "v1_sig_lock"]
                /\ UNCHANGED <<ptc, nextH, buildLog, ptcLock>>
           ELSE V1Store(t, dataSourceTransport(nextH, getCustomHeaders(arg[t]),
                                               tlsRes.cfg, NoSigV4,
                                               getTimeout(arg[t])), nd)
    /\ UNCHANGED <<ptc2, dsDecryptionCache, ptc2Lock, decLock, SigV4AuthEnabled, DataProxyTimeout, decLog,
                   op, arg, pending, opts, calls, sent>>

\* sigV4Middleware calls DecryptedValues: dsDecryptionCache.Lock().
V1_SigLock(t) ==
    /\ pc[t] = "v1_sig_lock"
    /\ decLock = NoThread
    /\ decLock' = t
    /\ pc' = [pc EXCEPT ![t] = "v1_sig"]
    /\ UNCHANGED <<ptc, ptc2, dsDecryptionCache, ptcLock, ptc2Lock, SigV4AuthEnabled, DataProxyTimeout, decLog,
                   op, arg, res, pending, opts, nextH, calls, buildLog, sent>>

\* DecryptedValues returns, then awsServiceNamespace; a panic unwinds through
\* the deferred ptc.Unlock().
V1_Sig(t) ==
    /\ pc[t] = "v1_sig"
    /\ LET dv == DecryptedValuesBody(dsDecryptionCache, arg[t])
       IN  /\ dsDecryptionCache' = dv.cache
           /\ decLog' = logLookup(arg[t], dv)
           /\ decLock' = NoThread
           /\ IF awsServiceNamespace(arg[t].Type) = "panic"
              THEN V1Fail(t, "panic", "", dv.ndec)
              ELSE V1Store(t, dataSourceTransport(nextH, getCustomHeaders(arg[t]),
                                                  GetTLSConfig(arg[t]).cfg,
                                                  sigV4Config(arg[t], dv.json),
                                                  getTimeout(arg[t])), dv.ndec)
    /\ UNCHANGED <<ptc2, ptc2Lock, SigV4AuthEnabled, DataProxyTimeout, op, arg, pending, opts, calls, sent>>

(***************************************************************************)
(* GetHttpTransport2.                                                      *)
(***************************************************************************)
\* Mutant: the lookup and the build run without waiting for ptc2's lock.
V2_LockNoMutex(t) ==
    /\ pc[t] = "v2_lock"
    /\ IF cacheHit(ptc2, arg[t])
       THEN /\ res' = [res EXCEPT ![t] = [@ EXCEPT !.kind = "ok", !.h = ptc2[arg[t].Id].h]]
            /\ pc' = [pc EXCEPT ![t] = afterTransport(t)]
            /\ UNCHANGED <<ptc2Lock, pending, opts>>
       ELSE /\ res' = [res EXCEPT ![t] = [@ EXCEPT !.built = TRUE,
                                                    !.ndec = getCustomHeadersDecrypts(arg[t])]]
            /\ pc' = [pc EXCEPT ![t] = "v2_opts"]
            /\ ptc2Lock' = t
            /\ pending' = [pending EXCEPT ![t] = optionSteps(arg[t])]
            /\ opts' = [opts EXCEPT ![t] = initialOptions(arg[t])]
    /\ UNCHANGED <<ptc, ptc2, dsDecryptionCache, ptcLock, decLock, SigV4AuthEnabled, DataProxyTimeout, decLog,
                   op, arg, nextH, calls, buildLog, sent>>

\* ptc2.Lock() and the cache lookup; on a miss HTTPClientOptions starts.
V2_Lock(t) ==
    /\ pc[t] = "v2_lock"
    /\ ptc2Lock = NoThread
    /\ IF cacheHit(ptc2, arg[t])
       THEN /\ res' = [res EXCEPT ![t] = [@ EXCEPT !.kind = "ok", !.h = ptc2[arg[t].Id].h]]
            /\ pc' = [pc EXCEPT ![t] = afterTransport(t)]
            /\ UNCHANGED <<ptc2Lock, pending, opts>>
       ELSE /\ res' = [res EXCEPT ![t] = [@ EXCEPT !.built = TRUE,
                                                    !.ndec = getCustomHeadersDecrypts(arg[t])]]
            /\ pc' = [pc EXCEPT ![t] = "v2_opts"]
            /\ ptc2Lock' = t
            /\ pending' = [pending EXCEPT ![t] = optionSteps(arg[t])]
            /\ opts' = [opts EXCEPT ![t] = initialOptions(arg[t])]
    /\ UNCHANGED <<ptc, ptc2, dsDecryptionCache, ptcLock, decLock, SigV4AuthEnabled, DataProxyTimeout, decLog,
                   op, arg, nextH, calls, buildLog, sent>>

\* The next DecryptedValue call of the options takes dsDecryptionCache's lock.
V2_DVLock(t) ==
    /\ pc[t] = "v2_opts"
    /\ pending[t] # <<>>
    /\ Head(pending[t]) # "awsServiceNamespace"
    /\ decLock = NoThread
    /\ decLock' = t
    /\ pc' = [pc EXCEPT ![t] = "v2_dv"]
    /\ UNCHANGED <<ptc, ptc2, dsDecryptionCache, ptcLock, ptc2Lock, SigV4AuthEnabled, DataProxyTimeout, decLog,
                   op, arg, res, pending, opts, nextH, calls, buildLog, sent>>

\* That DecryptedValue call returns and its value goes into the options.
V2_DV(t) ==
    /\ pc[t] = "v2_dv"
    /\ LET dv == DecryptedValuesBody(dsDecryptionCache, arg[t])
       IN  /\ dsDecryptionCache' = dv.cache
           /\ decLog' = logLookup(arg[t], dv)
           /\ res' = [res EXCEPT ![t] = [@ EXCEPT !.ndec = @ + dv.ndec,
                                                   !.keyDecrypts = @ + keyLookup(t, dv.ndec)]]
           /\ opts' = [opts EXCEPT ![t] = setOption(@, Head(pending[t]), dv.json)]
    /\ decLock' = NoThread
    /\ pending' = [pending EXCEPT ![t] = Tail(@)]
    /\ pc' = [pc EXCEPT ![t] = "v2_opts"]
    /\ UNCHANGED <<ptc, ptc2, ptcLock, ptc2Lock, SigV4AuthEnabled, DataProxyTimeout, op, arg, nextH,
                   calls, buildLog, sent>>

\* awsServiceNamespace(ds.Type) of HTTPClientOptions (line 219).
V2_Namespace(t) ==
    /\ pc[t] = "v2_opts"
    /\ pending[t] # <<>>
    /\ Head(pending[t]) = "awsServiceNamespace"
    /\ IF awsServiceNamespace(arg[t].Type) = "panic"
       THEN /\ res' = [res EXCEPT ![t] = [@ EXCEPT !.kind = "panic"]]
            /\ buildLog' = logBuild("ptc2", arg[t], "panic", 0)
            /\ ptc2Lock' = NoThread
            /\ pending' = [pending EXCEPT ![t] = <<>>]
            /\ pc' = [pc EXCEPT ![t] = afterTransport(t)]
            /\ UNCHANGED opts
       ELSE /\ opts' = [opts EXCEPT ![t].SigV4 =
                            [@ EXCEPT !.on = TRUE,
                                      !.Service = awsServiceNamespace(arg[t].Type)]]
            /\ pending' = [pending EXCEPT ![t] = Tail(@)]
            /\ UNCHANGED <<res, buildLog, ptc2Lock, pc>>
    /\ UNCHANGED <<ptc, ptc2, dsDecryptionCache, ptcLock, decLock, SigV4AuthEnabled, DataProxyTimeout, decLog,
                   op, arg, nextH, calls, sent>>

\* provider.GetTransport(opts): the provider is the caller's, it may fail.
V2_Provider(t) ==
    /\ pc[t] = "v2_opts"
    /\ pending[t] = <<>>
    /\ \E ok \in BOOLEAN :
          IF ok
          THEN /\ ptc2' = MapPut(ptc2, arg[t].Id,
                                 [updated |-> arg[t].Updated,
                                  h |-> roundTripper2(nextH, opts[t])])
               /\ res' = [res EXCEPT ![t] = [@ EXCEPT !.kind = "ok",
                                                       !.h = roundTripper2(nextH, opts[t])]]
               /\ nextH' = nextH + 1
               /\ buildLog' = logBuild("ptc2", arg[t], "ok", nextH)
          ELSE /\ res' = [res EXCEPT ![t] = [@ EXCEPT !.kind = "err", !.err = ErrProvider]]
               /\ buildLog' = logBuild("ptc2", arg[t], "err", 0)
               /\ UNCHANGED <<ptc2, nextH>>
    /\ ptc2Lock' = NoThread
    /\ pc' = [pc EXCEPT ![t] = afterTransport(t)]
    /\ UNCHANGED <<ptc, dsDecryptionCache, ptcLock, decLock, SigV4AuthEnabled, DataProxyTimeout, decLog,
                   op, arg, pending, opts, calls, sent>>

(***************************************************************************)
(* DecryptedValues and ClearDSDecryptionCache, called directly.            *)
(***************************************************************************)
DV_Lock(t) ==
    /\ pc[t] = "dv_lock"
    /\ decLock = NoThread
    /\ decLock' = t
    /\ pc' = [pc EXCEPT ![t] = "dv_in"]
    /\ UNCHANGED <<ptc, ptc2, dsDecryptionCache, ptcLock, ptc2Lock, SigV4AuthEnabled, DataProxyTimeout, decLog,
                   op, arg, res, pending, opts, nextH, calls, buildLog, sent>>

DV_Body(t) ==
    /\ pc[t] = "dv_in"
    /\ LET dv == DecryptedValuesBody(dsDecryptionCache, arg[t])
       IN  /\ dsDecryptionCache' = dv.cache
           /\ decLog' = logLookup(arg[t], dv)
           /\ res' = [res EXCEPT ![t] = [@ EXCEPT !.kind = "ok", !.json = dv.json,
                                                   !.ndec = dv.ndec]]
    /\ decLock' = NoThread
    /\ pc' = [pc EXCEPT ![t] = "done"]
    /\ UNCHANGED <<ptc, ptc2, ptcLock, ptc2Lock, SigV4AuthEnabled, DataProxyTimeout, op, arg, pending,
                   opts, nextH, calls, buildLog, sent>>

\* Mutant: the new map is never assigned to the cache.
ClearKeepsEntries(t) ==
    /\ pc[t] = "clear_lock"
    /\ decLock = NoThread
    /\ decLog' = [i \in Ids |-> Append(decLog[i], [kind |-> "clear", updated |-> 0])]
    /\ res' = [res EXCEPT ![t] = [@ EXCEPT !.kind = "ok"]]
    /\ pc' = [pc EXCEPT ![t] = "done"]
    /\ UNCHANGED <<ptc, ptc2, dsDecryptionCache, ptcLock, ptc2Lock, decLock,
                   SigV4AuthEnabled, DataProxyTimeout, op, arg, pending, opts, nextH, calls, buildLog, sent>>

\* Mutant: the transport caches are emptied as well.
ClearAlsoTransports(t) ==
    /\ pc[t] = "clear_lock"
    /\ decLock = NoThread
    /\ dsDecryptionCache' = EmptyMap
    /\ ptc' = EmptyMap
    /\ ptc2' = EmptyMap
    /\ decLog' = [i \in Ids |-> Append(decLog[i], [kind |-> "clear", updated |-> 0])]
    /\ res' = [res EXCEPT ![t] = [@ EXCEPT !.kind = "ok"]]
    /\ pc' = [pc EXCEPT ![t] = "done"]
    /\ UNCHANGED <<ptcLock, ptc2Lock, decLock, SigV4AuthEnabled, DataProxyTimeout, op, arg,
                   pending, opts, nextH, calls, buildLog, sent>>

\* Lock, replace the whole map, unlock.
ClearDSDecryptionCache(t) ==
    /\ pc[t] = "clear_lock"
    /\ decLock = NoThread
    /\ dsDecryptionCache' = EmptyMap
    /\ decLog' = [i \in Ids |-> Append(decLog[i], [kind |-> "clear", updated |-> 0])]
    /\ res' = [res EXCEPT ![t] = [@ EXCEPT !.kind = "ok"]]
    /\ pc' = [pc EXCEPT ![t] = "done"]
    /\ UNCHANGED <<ptc, ptc2, ptcLock, ptc2Lock, decLock, SigV4AuthEnabled, DataProxyTimeout, op, arg,
                   pending, opts, nextH, calls, buildLog, sent>>

Next ==
    \E t \in Threads :
        \/ \E o \in Ops, d \in MainDS : Call(t, o, d)
        \/ V1_Lock(t)
        \/ V1_Build(t)
        \/ V1_SigLock(t)
        \/ V1_Sig(t)
        \/ V2_Lock(t)
        \/ V2_DVLock(t)
        \/ V2_DV(t)
        \/ V2_Namespace(t)
        \/ V2_Provider(t)
        \/ DV_Lock(t)
        \/ DV_Body(t)
        \/ ClearDSDecryptionCache(t)
        \/ GetHttpClient(t)

Spec == Init /\ [][Next]_vars

(***************************************************************************)
(* SpecTransport: the callers call GetHttpTransport and GetHttpTransport2  *)
(* only.  SpecDecryption: they call DecryptedValues and                    *)
(* ClearDSDecryptionCache, and GetHttpTransport for the data source that   *)
(* signs, whose build looks the credentials up in the decryption cache.    *)
(***************************************************************************)
NextTransport ==
    \E t \in Threads :
        \/ \E o \in {"GetHttpTransport", "GetHttpTransport2"}, d \in MainDS : Call(t, o, d)
        \/ V1_Lock(t)
        \/ V1_Build(t)
        \/ V1_SigLock(t)
        \/ V1_Sig(t)
        \/ V2_Lock(t)
        \/ V2_DVLock(t)
        \/ V2_DV(t)
        \/ V2_Namespace(t)
        \/ V2_Provider(t)

SpecTransport == Init /\ [][NextTransport]_vars

NextDecryption ==
    \E t \in Threads :
        \/ \E o \in {"DecryptedValues", "ClearDSDecryptionCache"}, d \in MainDS : Call(t, o, d)
        \/ Call(t, "GetHttpTransport", signedES)
        \/ V1_Lock(t)
        \/ V1_Build(t)
        \/ V1_SigLock(t)
        \/ V1_Sig(t)
        \/ DV_Lock(t)
        \/ DV_Body(t)
        \/ ClearDSDecryptionCache(t)

SpecDecryption == Init /\ [][NextDecryption]_vars

(***************************************************************************)
(* SpecCaches: the callers call the two transport functions,               *)
(* DecryptedValues and ClearDSDecryptionCache, so that the three caches    *)
(* change in one behaviour.                                                *)
(***************************************************************************)
CacheDS == {plainA, plainB, signedES}

NextCaches ==
    \E t \in Threads :
        \/ \E o \in {"GetHttpTransport", "GetHttpTransport2", "DecryptedValues"},
              d \in CacheDS : Call(t, o, d)
        \/ Call(t, "ClearDSDecryptionCache", plainA)
        \/ V1_Lock(t)
        \/ V1_Build(t)
        \/ V1_SigLock(t)
        \/ V1_Sig(t)
        \/ V2_Lock(t)
        \/ V2_DVLock(t)
        \/ V2_DV(t)
        \/ V2_Namespace(t)
        \/ V2_Provider(t)
        \/ DV_Lock(t)
        \/ DV_Body(t)
        \/ ClearDSDecryptionCache(t)

SpecCaches == Init /\ [][NextCaches]_vars

(***************************************************************************)
(* dataSourceTransport.RoundTrip: req.Header.Set(key, value) for every     *)
(* header of the handler, then the request goes to next.  Header.Set       *)
(* stores under the canonical form of the key; Go ranges over a map in an  *)
(* unspecified order, so of two keys with one canonical form either value  *)
(* may be the one left on the request.                                     *)
(***************************************************************************)
CanonicalMIMEHeaderKey(k) == IF k = "x-a" THEN "X-A" ELSE k

setHeaders(reqHeaders, headers) ==
    LET canon == {CanonicalMIMEHeaderKey(k) : k \in DOMAIN headers}
        choices(c) == {headers[k] : k \in {x \in DOMAIN headers : CanonicalMIMEHeaderKey(x) = c}}
    IN  {[c \in (DOMAIN reqHeaders) \cup canon |->
             IF c \in canon THEN f[c] ELSE reqHeaders[c]] :
         f \in {g \in [canon -> UNION {choices(c) : c \in canon}] :
                  \A c \in canon : g[c] \in choices(c)}}

\* The requests callers send: no header, or X-A already set.
Requests == {EmptyMap, ("X-A" :> <<"old">>), ("X-C" :> <<"keep">>)}

\* What d.next can return: a response, a response with an error status (no
\* error for a round tripper), or a network error and no response.
ErrDial == "dial tcp: connection refused"

NextResults ==
    {[resp |-> 200, err |-> ""], [resp |-> 502, err |-> ""], [resp |-> 0, err |-> ErrDial]}

\* d.next of a handler (lines 113-118, 124): the signer when the build added
\* one, the http.Transport otherwise.
nextOf(h) == IF h.sigv4.on THEN "signer" ELSE "transport"

\* The round tripper DataSourceMetricsMiddleware creates around next, given
\* what next returns: it passes the request to next once and returns what next
\* returned.
metricsRoundTrip(nextResult) == [nextCalls |-> 1, result |-> nextResult]

\* Mutant: a round trip that ends in an error is tried a second time.
RoundTripRetries(t, req) ==
    /\ pc[t] = "done"
    /\ op[t] = "GetHttpTransport"
    /\ res[t].kind = "ok"
    /\ ~sent[t].sent
    /\ \E out \in setHeaders(req, res[t].h.headers), r1 \in NextResults, r2 \in NextResults :
          sent' = [sent EXCEPT ![t] =
                      [sent |-> TRUE, req |-> req, headers |-> out,
                       next |-> nextOf(res[t].h),
                       nextCalls |-> IF r1.err # "" THEN 2 ELSE 1,
                       nextResult |-> IF r1.err # "" THEN r2 ELSE r1,
                       result |-> IF r1.err # "" THEN r2 ELSE r1]]
    /\ UNCHANGED <<ptc, ptc2, dsDecryptionCache, ptcLock, ptc2Lock, decLock,
                   SigV4AuthEnabled, DataProxyTimeout, decLog, pc, op, arg, res, pending, opts, nextH, calls,
                   buildLog>>

\* Mutant: an error of next is wrapped before it is returned.
RoundTripWrapsError(t, req) ==
    /\ pc[t] = "done"
    /\ op[t] = "GetHttpTransport"
    /\ res[t].kind = "ok"
    /\ ~sent[t].sent
    /\ \E out \in setHeaders(req, res[t].h.headers), r \in NextResults :
          sent' = [sent EXCEPT ![t] =
                      [sent |-> TRUE, req |-> req, headers |-> out,
                       next |-> nextOf(res[t].h),
                       nextCalls |-> 1,
                       nextResult |-> r,
                       result |-> IF r.err # ""
                                  THEN [resp |-> 0, err |-> "round trip failed"]
                                  ELSE r]]
    /\ UNCHANGED <<ptc, ptc2, dsDecryptionCache, ptcLock, ptc2Lock, decLock,
                   SigV4AuthEnabled, DataProxyTimeout, decLog, pc, op, arg, res, pending, opts, nextH, calls,
                   buildLog>>

\* The request the caller passes, with the handler's headers set on it, goes
\* through the metrics round tripper to next; r is what next returns.
RoundTrip(t, req) ==
    /\ pc[t] = "done"
    /\ op[t] = "GetHttpTransport"
    /\ res[t].kind = "ok"
    /\ ~sent[t].sent
    /\ \E out \in setHeaders(req, res[t].h.headers), r \in NextResults :
          sent' = [sent EXCEPT ![t] =
                      [sent |-> TRUE, req |-> req, headers |-> out,
                       next |-> nextOf(res[t].h),
                       nextCalls |-> metricsRoundTrip(r).nextCalls,
                       nextResult |-> r,
                       result |-> metricsRoundTrip(r).result]]
    /\ UNCHANGED <<ptc, ptc2, dsDecryptionCache, ptcLock, ptc2Lock, decLock,
                   SigV4AuthEnabled, DataProxyTimeout, decLog, pc, op, arg, res, pending, opts, nextH, calls,
                   buildLog>>

(***************************************************************************)
(* SpecTLS: one GetHttpTransport call on a cold cache, the data source's   *)
(* TLS settings and secrets drawn from every combination within the bound. *)
(***************************************************************************)
\* Longest PEM input, in blocks.
MaxPEMBlocks == 2

SeqsUpTo(S, n) == UNION {[1..k -> S] : k \in 0..n}

\* Secret maps: each key absent, or present with one of the values.
SecretMaps(keys, values) ==
    UNION {[present -> values] : present \in SUBSET keys}

TLSSecrets ==
    {ca @@ cert @@ key :
        ca \in SecretMaps({"tlsCACert"}, SeqsUpTo({"junk", "certA", "certB"}, MaxPEMBlocks)),
        cert \in SecretMaps({"tlsClientCert"}, SeqsUpTo({"junk", "certA", "certB"}, MaxPEMBlocks)),
        key \in SecretMaps({"tlsClientKey"}, SeqsUpTo({"junk", "keyA", "keyB"}, MaxPEMBlocks))}

TLSJson ==
    {[JsonData(a, c, FALSE, EmptyMap) EXCEPT !.tlsSkipVerify = v,
                                            !.serverName = IF v THEN "example.org" ELSE ""] :
        a \in BOOLEAN, c \in BOOLEAN, v \in BOOLEAN}

\* One thread inside a GetHttpTransport call on d, the other not running.
InitOneCall(d, enabled) ==
    /\ InitShared
    /\ SigV4AuthEnabled = enabled
    /\ DataProxyTimeout = DefaultTimeout
    /\ pc = [t \in Threads |-> IF t = "t1" THEN "v1_lock" ELSE "off"]
    /\ op = [t \in Threads |-> IF t = "t1" THEN "GetHttpTransport" ELSE "none"]
    /\ arg = [t \in Threads |-> d]
    /\ calls = 1

InitTLS ==
    \E n \in BOOLEAN, j \in TLSJson, s \in TLSSecrets :
        InitOneCall(DataSource(1, 1, DS_PROMETHEUS, n, j, s), FALSE)

NextTLS == V1_Lock("t1") \/ V1_Build("t1")

SpecTLS == InitTLS /\ [][NextTLS]_vars

(***************************************************************************)
(* SpecHdr: one GetHttpTransport call and one round trip, the header names *)
(* and values drawn from every combination within the bound.               *)
(***************************************************************************)
HeaderNames == {"", "X-A", "x-a", "X-B"}
HeaderValues == {<<>>, <<"v1">>, <<"v2">>}

HdrJson ==
    {JsonData(FALSE, FALSE, FALSE, h) :
        h \in SecretMaps({HeaderNameKeys[i] : i \in 1..MaxHeaderIdx}, HeaderNames)}

HdrSecrets == SecretMaps({HeaderValueKeys[i] : i \in 1..MaxHeaderIdx}, HeaderValues)

InitHdr ==
    \E n \in BOOLEAN, j \in HdrJson, s \in HdrSecrets :
        InitOneCall(DataSource(1, 1, DS_PROMETHEUS, n, j, s), FALSE)

NextHdr ==
    \/ V1_Lock("t1")
    \/ V1_Build("t1")
    \/ \E req \in Requests : RoundTrip("t1", req)

SpecHdr == InitHdr /\ [][NextHdr]_vars

(***************************************************************************)
(* SpecSign: one GetHttpTransport call and one GetHttpTransport2 call on   *)
(* one data source, its type, its sigV4Auth setting and its signing        *)
(* secrets drawn from every combination, with setting.SigV4AuthEnabled on  *)
(* or off.                                                                 *)
(***************************************************************************)
DSTypes == {DS_ES, DS_ES_OPEN_DISTRO, DS_PROMETHEUS, DS_UNKNOWN}

SigSecrets == SecretMaps({"sigV4AccessKey", "sigV4SecretKey"}, {<<>>, <<"k1">>, <<"k2">>})

InitSign ==
    \E ty \in DSTypes, sig \in BOOLEAN, n \in BOOLEAN, s \in SigSecrets :
        /\ InitShared
        /\ DataProxyTimeout = DefaultTimeout
        /\ pc = [t \in Threads |-> IF t = "t1" THEN "v1_lock" ELSE "v2_lock"]
        /\ op = [t \in Threads |->
                    IF t = "t1" THEN "GetHttpTransport" ELSE "GetHttpTransport2"]
        /\ arg = [t \in Threads |->
                     DataSource(2, 1, ty, n, JsonData(FALSE, FALSE, sig, EmptyMap), s)]
        /\ calls = 2

NextSign ==
    \E t \in Threads :
        \/ V1_Lock(t)
        \/ V1_Build(t)
        \/ V1_SigLock(t)
        \/ V1_Sig(t)
        \/ V2_Lock(t)
        \/ V2_DVLock(t)
        \/ V2_DV(t)
        \/ V2_Namespace(t)
        \/ V2_Provider(t)

SpecSign == InitSign /\ [][NextSign]_vars

(***************************************************************************)
(* SpecTimeout: one GetHttpClient call and one GetHttpClient2 call on one  *)
(* data source, its "timeout" entry and setting.DataProxyTimeout drawn     *)
(* from every combination.                                                 *)
(***************************************************************************)
TimeoutEntries ==
    {NoTimeout, <<"int", 0>>, <<"int", 5>>, <<"int", 30>>, <<"int", -1>>, <<"string">>}

DataProxyTimeouts == {0, DefaultTimeout, 60}

InitTimeout ==
    \E v \in TimeoutEntries, n \in BOOLEAN, d \in DataProxyTimeouts :
        /\ InitShared
        /\ DataProxyTimeout = d
        /\ pc = [t \in Threads |-> IF t = "t1" THEN "v1_lock" ELSE "v2_lock"]
        /\ op = [t \in Threads |-> IF t = "t1" THEN "GetHttpClient" ELSE "GetHttpClient2"]
        /\ arg = [t \in Threads |->
                     DataSource(1, 1, DS_PROMETHEUS, n, [NoJson EXCEPT !.timeout = v],
                                EmptyMap)]
        /\ calls = 2

NextTimeout ==
    \E t \in Threads :
        \/ V1_Lock(t)
        \/ V1_Build(t)
        \/ V2_Lock(t)
        \/ V2_Provider(t)
        \/ GetHttpClient(t)

SpecTimeout == InitTimeout /\ [][NextTimeout]_vars

(***************************************************************************)
(* SpecTrip: the callers call GetHttpTransport, for a data source without  *)
(* and one with signing, and send one request through each handler they    *)
(* get, so that round trips go through handlers the cache holds while      *)
(* other calls hit or rebuild.                                             *)
(***************************************************************************)
TripDS == {plainA, plainB, signedES}

NextTrip ==
    \E t \in Threads :
        \/ \E d \in TripDS : Call(t, "GetHttpTransport", d)
        \/ V1_Lock(t)
        \/ V1_Build(t)
        \/ V1_SigLock(t)
        \/ V1_Sig(t)
        \/ \E req \in Requests : RoundTrip(t, req)

SpecTrip == Init /\ [][NextTrip]_vars

(***************************************************************************)
(* SpecLocks: the callers call GetHttpTransport, GetHttpTransport2,        *)
(* DecryptedValues and ClearDSDecryptionCache on data sources whose builds *)
(* end in each way: stored, error returned, panic.  A goroutine that can   *)
(* run does run (the Go scheduler; sync.Mutex hands the lock to a waiter): *)
(* weak fairness of each thread's steps inside a call.  Starting a call is *)
(* up to the caller and has no fairness.                                   *)
(***************************************************************************)
LockDS == {badCA, signedES, signedUnknown}

\* A step of thread t inside a call.
Steps(t) ==
    \/ V1_Lock(t)
    \/ V1_Build(t)
    \/ V1_SigLock(t)
    \/ V1_Sig(t)
    \/ V2_Lock(t)
    \/ V2_DVLock(t)
    \/ V2_DV(t)
    \/ V2_Namespace(t)
    \/ V2_Provider(t)
    \/ DV_Lock(t)
    \/ DV_Body(t)
    \/ ClearDSDecryptionCache(t)

NextLocks ==
    \E t \in Threads :
        \/ \E d \in LockDS : Call(t, "GetHttpTransport", d)
        \/ \E d \in LockDS \ {badCA} : Call(t, "GetHttpTransport2", d)
        \/ Call(t, "DecryptedValues", signedES)
        \/ Call(t, "ClearDSDecryptionCache", signedES)
        \/ Steps(t)

SpecLocks == Init /\ [][NextLocks]_vars /\ \A t \in Threads : WF_vars(Steps(t))

(***************************************************************************)
(* Vocabulary of the properties.                                           *)
(***************************************************************************)
cacheOf(c) == IF c = "ptc" THEN ptc ELSE ptc2

opOf(c) == IF c = "ptc" THEN "GetHttpTransport" ELSE "GetHttpTransport2"

\* Thread t has returned from a call of cache c's function for id i.
returned(t, c, i) == pc[t] = "done" /\ op[t] = opOf(c) /\ arg[t].Id = i

\* Every build logged for the entry carried timestamp u.
onlyTimestamp(L, u) == \A j \in DOMAIN L : L[j].updated = u

\* Thread t takes a step that ends its call.
returns(t) == pc[t] \notin {"idle", "done", "off"} /\ pc'[t] = "done"

\* Thread t is inside the build of cache c (it missed, and holds the lock).
building(t, c) ==
    IF c = "ptc" THEN pc[t] \in {"v1_build", "v1_sig_lock", "v1_sig"}
    ELSE pc[t] \in {"v2_opts", "v2_dv"}

(***************************************************************************)
(* C1. Identity stability: once a build for (id, Updated) has succeeded,   *)
(* no later call with the same id and Updated runs the build again unless  *)
(* a call with another timestamp came between; and as long as every call   *)
(* for the id carried the one timestamp, every call that has returned a    *)
(* handler returned the instance the first successful build stored, which  *)
(* is the one the cache holds.                                             *)
(***************************************************************************)
IdentityStability ==
    \A c \in Caches, i \in Ids :
        LET L == buildLog[c][i]
        IN  /\ \A j, k \in DOMAIN L :
                  (j < k /\ L[j].outcome = "ok" /\ L[k].updated = L[j].updated)
                  => \E m \in (j + 1)..(k - 1) : L[m].updated # L[j].updated
            /\ \A t \in Threads :
                  (returned(t, c, i) /\ res[t].kind = "ok"
                   /\ onlyTimestamp(L, arg[t].Updated))
                  => /\ \E j \in DOMAIN L :
                           /\ L[j].outcome = "ok"
                           /\ L[j].hid = res[t].h.hid
                           /\ \A m \in 1..(j - 1) : L[m].outcome # "ok"
                     /\ i \in DOMAIN cacheOf(c)
                     /\ cacheOf(c)[i].h = res[t].h

\* Two calls of GetHttpTransport with one id and timestamp have returned: the
\* first built the handler, the second returned the same instance unbuilt.
IdentityStabilityWitness ==
    \E t, u \in Threads :
        /\ t # u
        /\ returned(t, "ptc", 1) /\ returned(u, "ptc", 1)
        /\ arg[t].Updated = arg[u].Updated
        /\ res[t].kind = "ok" /\ res[u].kind = "ok"
        /\ res[t].built /\ ~res[u].built
        /\ res[t].h = res[u].h
        /\ Len(buildLog["ptc"][1]) = 1

(***************************************************************************)
(* C2. Invalidation: a call that finds an entry for its id with another    *)
(* timestamp never returns that entry, it runs the build; and a build that *)
(* returns a handler returns a fresh instance, distinct from every handler *)
(* cached before, and leaves the entry of its id equal to {its timestamp,  *)
(* that handler}, the other entries as they were.                          *)
(***************************************************************************)
Invalidation ==
    [][\A t \in Threads, c \in Caches :
          LET i == arg[t].Id
              old == cacheOf(c)
              new == cacheOf(c)'
          IN  /\ (/\ pc[t] = (IF c = "ptc" THEN "v1_lock" ELSE "v2_lock")
                  /\ pc'[t] # pc[t]
                  /\ i \in DOMAIN old
                  /\ old[i].updated # arg[t].Updated)
                 => (building(t, c)' /\ res'[t].built /\ res'[t].kind = "none")
              /\ (building(t, c) /\ returns(t) /\ res'[t].kind = "ok")
                 => /\ \A k \in DOMAIN old : old[k].h.hid # res'[t].h.hid
                    /\ res'[t].h.hid # 0
                    /\ new[i] = [updated |-> arg[t].Updated, h |-> res'[t].h]
                    /\ DOMAIN new = DOMAIN old \cup {i}
                    /\ \A k \in DOMAIN old \ {i} : new[k] = old[k]]_vars

\* plainA was built and cached, then plainB (the same configuration, another
\* timestamp) was called for and replaced it.
InvalidationWitness ==
    \E t \in Threads :
        /\ returned(t, "ptc", 1) /\ arg[t] = plainB
        /\ res[t].kind = "ok" /\ res[t].built
        /\ Len(buildLog["ptc"][1]) = 2
        /\ buildLog["ptc"][1][1].outcome = "ok"
        /\ buildLog["ptc"][1][1].updated = plainA.Updated
        /\ ptc[1] = [updated |-> plainB.Updated, h |-> res[t].h]
        /\ res[t].h.hid # buildLog["ptc"][1][1].hid

(***************************************************************************)
(* C3. Single build: while every build of an entry carried one timestamp   *)
(* and none failed, the build has run at most once, exactly once if a call *)
(* has returned, and every caller that has returned holds the same handler *)
(* instance, whatever the interleaving of the callers.                     *)
(***************************************************************************)
SingleBuild ==
    \A c \in Caches, i \in Ids :
        LET L == buildLog[c][i]
            got == {t \in Threads : returned(t, c, i) /\ res[t].kind = "ok"}
        IN  (\A j \in DOMAIN L : L[j].outcome = "ok" /\ L[j].updated = L[1].updated)
            => /\ Len(L) <= 1
               /\ got # {} => Len(L) = 1
               /\ \A t, u \in got : res[t].h = res[u].h
               /\ Cardinality({t \in got : res[t].built}) <= 1

\* Both threads were inside GetHttpTransport2 for the cold signedES at once;
\* both have returned the same round tripper and one build ran.
SingleBuildWitness ==
    \E t, u \in Threads :
        /\ t # u
        /\ returned(t, "ptc2", 2) /\ returned(u, "ptc2", 2)
        /\ arg[t] = signedES /\ arg[u] = signedES
        /\ res[t].kind = "ok" /\ res[u].kind = "ok"
        /\ res[u].concurrent
        /\ res[t].h = res[u].h
        /\ calls = 2
        /\ Len(buildLog["ptc2"][2]) = 1

(***************************************************************************)
(* C4. Failed builds are not cached: a call that returns an error leaves   *)
(* both transport caches as they were, with no entry that a call with its  *)
(* id and timestamp would hit; every entry ever cached holds a handler a   *)
(* successful build produced for that timestamp, so no call returns a      *)
(* cached failure: a call with the failed call's id and timestamp misses   *)
(* and builds again.                                                       *)
(***************************************************************************)
EntriesAreBuilt ==
    \A c \in Caches : \A i \in DOMAIN cacheOf(c) :
        /\ cacheOf(c)[i].h.hid # 0
        /\ \E j \in DOMAIN buildLog[c][i] :
              /\ buildLog[c][i][j].updated = cacheOf(c)[i].updated
              /\ buildLog[c][i][j].outcome = "ok"
              /\ buildLog[c][i][j].hid = cacheOf(c)[i].h.hid

FailedBuildsNotCached ==
    /\ []EntriesAreBuilt
    /\ [][\A t \in Threads, c \in Caches :
             (building(t, c) /\ returns(t) /\ res'[t].kind = "err")
             => /\ ptc' = ptc /\ ptc2' = ptc2
                /\ ~cacheHit(cacheOf(c)', arg[t])
                /\ res'[t].h = NoHandler]_vars

\* The build of badCA failed twice: the second call did not find the first
\* call's failure cached and ran the build again.
FailedBuildsNotCachedWitness ==
    \E t, u \in Threads :
        /\ t # u
        /\ returned(t, "ptc", 1) /\ returned(u, "ptc", 1)
        /\ arg[t] = badCA /\ arg[u] = badCA
        /\ res[t].kind = "err" /\ res[u].kind = "err"
        /\ res[t].built /\ res[u].built
        /\ Len(buildLog["ptc"][1]) = 2
        /\ 1 \notin DOMAIN ptc

(***************************************************************************)
(* C5. Cache clear round trip: ClearDSDecryptionCache runs only while no   *)
(* thread is inside DecryptedValues and leaves the decryption cache empty; *)
(* a lookup for an id the cache has no entry for calls Decrypt once and    *)
(* stores {its timestamp, the decrypted map}; so the first lookup for an   *)
(* id after a clear is never served from the cache, whatever its           *)
(* timestamp.                                                              *)
(***************************************************************************)
inDecryptedValues == {"dv_in", "v1_sig", "v2_dv"}

ClearRoundTrip ==
    /\ [](\A t \in Threads : pc[t] \in inDecryptedValues <=> decLock = t)
    /\ [](\A i \in Ids : \A j \in DOMAIN decLog[i] :
             decLog[i][j].kind = "hit" => (j > 1 /\ decLog[i][j - 1].kind # "clear"))
    /\ [][\A t \in Threads :
             /\ (pc[t] = "clear_lock" /\ pc'[t] = "done")
                => /\ dsDecryptionCache' = EmptyMap
                   /\ \A u \in Threads : pc[u] \notin inDecryptedValues
             /\ (pc[t] \in inDecryptedValues /\ pc'[t] # pc[t]
                 /\ arg[t].Id \notin DOMAIN dsDecryptionCache)
                => /\ res'[t].ndec = res[t].ndec + 1
                   /\ arg[t].Id \in DOMAIN dsDecryptionCache'
                   /\ dsDecryptionCache'[arg[t].Id] =
                          [updated |-> arg[t].Updated, json |-> Decrypt(arg[t].secure)]]_vars

\* Id 1 was decrypted, the cache was cleared, and the next lookup for id 1,
\* with the same timestamp, called Decrypt again and stored the entry again.
ClearRoundTripWitness ==
    /\ Len(decLog[1]) = 3
    /\ decLog[1][1].kind = "decrypt"
    /\ decLog[1][2].kind = "clear"
    /\ decLog[1][3] = decLog[1][1]
    /\ 1 \in DOMAIN dsDecryptionCache
    /\ \E t \in Threads :
          /\ pc[t] = "done" /\ op[t] = "DecryptedValues" /\ arg[t].Id = 1
          /\ res[t].ndec = 1
          /\ res[t].json = dsDecryptionCache[1].json

(***************************************************************************)
(* C6. Signing with a type outside the allow-list.                         *)
(***************************************************************************)
unsupportedSigning(ds) ==
    sigV4Auth(ds) /\ ds.Type \notin {DS_ES, DS_ES_OPEN_DISTRO, DS_PROMETHEUS}

\* C6 as claimed: every build for a data source with signing enabled and a
\* type outside the allow-list returns an error result to its caller, and no
\* handler.
FailFastSigningReturnsError ==
    \A t \in Threads, c \in Caches :
        (returned(t, c, arg[t].Id) /\ res[t].built /\ unsupportedSigning(arg[t]))
        => (res[t].kind = "err" /\ res[t].h = NoHandler)

(***************************************************************************)
(* C6, amended: a build for a data source with signing enabled and a type  *)
(* outside the allow-list that reaches awsServiceNamespace ends in a panic *)
(* there, not in an error result: always in GetHttpTransport2, and in      *)
(* GetHttpTransport when setting.SigV4AuthEnabled is on and the TLS        *)
(* configuration was built (a TLS error is returned first).  The call that *)
(* panics returns no handler, leaves both transport caches as they were    *)
(* and releases the locks it held.  With SigV4AuthEnabled off,             *)
(* GetHttpTransport does not look at sigV4Auth: it builds and caches a     *)
(* handler without a signer.                                               *)
(***************************************************************************)
FailFastSigningPanics ==
    /\ [](\A t \in Threads, c \in Caches :
             (returned(t, c, arg[t].Id) /\ res[t].built /\ unsupportedSigning(arg[t]))
             => /\ res[t].kind =
                       (IF c = "ptc2" THEN "panic"
                        ELSE IF GetTLSConfig(arg[t]).err # "" THEN "err"
                        ELSE IF SigV4AuthEnabled THEN "panic"
                        ELSE "ok")
                /\ res[t].kind \in {"panic", "err"} => res[t].h = NoHandler
                /\ res[t].kind = "ok" => ~res[t].h.sigv4.on)
    /\ [][\A t \in Threads, c \in Caches :
             (building(t, c) /\ returns(t) /\ res'[t].kind = "panic")
             => /\ unsupportedSigning(arg[t])
                /\ ptc' = ptc /\ ptc2' = ptc2
                /\ ptcLock' # t /\ ptc2Lock' # t /\ decLock' # t]_vars

\* GetHttpTransport on signedUnknown, with SigV4AuthEnabled on, has panicked.
FailFastSigningWitness ==
    \E t \in Threads :
        /\ returned(t, "ptc", 2) /\ arg[t] = signedUnknown
        /\ SigV4AuthEnabled
        /\ res[t].kind = "panic" /\ res[t].built
        /\ 2 \notin DOMAIN ptc
        /\ ptcLock = NoThread

(***************************************************************************)
(* C7. Header scan gap: the headers of a built handler, and the headers    *)
(* RoundTrip sets on a request, come from the indices below the first      *)
(* index whose name is absent or empty, and from all of those that have a  *)
(* value; a name configured above the gap is applied only if it is also    *)
(* configured below it, with the value from below; the other headers of    *)
(* the request stay as they were.                                          *)
(***************************************************************************)
nameAt(ds, n) == MustString(ds.json.hdr, HeaderNameKeys[n])

\* The first n with no name; 1 when JsonData is nil (no header is read).
firstGap(ds) ==
    IF ds.jsonNil THEN 1
    ELSE CHOOSE n \in 1..(MaxHeaderIdx + 1) :
             nameAt(ds, n) = "" /\ \A m \in 1..(n - 1) : nameAt(ds, m) # ""

\* Index n, below the gap, configures header k with value v.
configures(ds, n, k, v) ==
    /\ n \in 1..(firstGap(ds) - 1)
    /\ nameAt(ds, n) = k
    /\ HeaderValueKeys[n] \in DOMAIN ds.secure
    /\ ds.secure[HeaderValueKeys[n]] = Encrypt(("x" :> v))["x"]

HeaderScanGap ==
    \A t \in Threads :
        (pc[t] = "done" /\ res[t].kind = "ok" /\ res[t].built)
        => LET ds == arg[t]
               hs == res[t].h.headers
               below == 1..(firstGap(ds) - 1)
               out == sent[t].headers
           IN  /\ \A k \in DOMAIN hs : \E n \in below : configures(ds, n, k, hs[k])
               /\ \A n \in below :
                     HeaderValueKeys[n] \in DOMAIN ds.secure => nameAt(ds, n) \in DOMAIN hs
               /\ sent[t].sent
                  => \A c \in DOMAIN out :
                        \/ \E n \in below :
                              \E k \in DOMAIN hs :
                                  CanonicalMIMEHeaderKey(k) = c /\ configures(ds, n, k, out[c])
                        \/ /\ c \in DOMAIN sent[t].req
                           /\ out[c] = sent[t].req[c]
                           /\ \A k \in DOMAIN hs : CanonicalMIMEHeaderKey(k) # c

\* Names at indices 1 and 3, none at 2, values for both: the request went out
\* with the header of index 1 only.
HeaderScanGapWitness ==
    \E t \in Threads :
        /\ pc[t] = "done" /\ res[t].kind = "ok" /\ sent[t].sent
        /\ arg[t].json.hdr = ("httpHeaderName1" :> "X-A") @@ ("httpHeaderName3" :> "X-B")
        /\ Decrypt(arg[t].secure) =
               ("httpHeaderValue1" :> <<"v1">>) @@ ("httpHeaderValue3" :> <<"v2">>)
        /\ ~arg[t].jsonNil
        /\ sent[t].req = EmptyMap
        /\ sent[t].headers = ("X-A" :> <<"v1">>)

(***************************************************************************)
(* C8. TLS CA failure: with tlsAuthWithCACert set and tlsAuth not, CA      *)
(* bytes that are not empty and hold no certificate make GetTLSConfig and  *)
(* GetHttpTransport return the CA parse error, no handler, and nothing is  *)
(* cached; CA bytes that hold certificates make the build succeed with     *)
(* RootCAs holding exactly the certificates of the bytes.  (Empty or       *)
(* absent CA bytes are the case of C9.)                                    *)
(***************************************************************************)
caBytes(ds) ==
    IF "tlsCACert" \in DOMAIN ds.secure THEN ds.secure["tlsCACert"][2] ELSE <<>>

caCerts(ds) == {b \in Range(caBytes(ds)) : b \in CertBlocks}

TLSCAFailure ==
    \A t \in Threads :
        (pc[t] = "done" /\ res[t].built /\ tlsAuthWithCACert(arg[t])
         /\ ~tlsClientAuth(arg[t]))
        => LET ds == arg[t]
           IN  /\ (caBytes(ds) # <<>> /\ caCerts(ds) = {})
                  => /\ GetTLSConfig(ds).err = ErrCAParse
                     /\ res[t].kind = "err" /\ res[t].err = ErrCAParse
                     /\ res[t].h = NoHandler
                     /\ ptc = EmptyMap
               /\ caCerts(ds) # {}
                  => /\ GetTLSConfig(ds).err = ""
                     /\ GetTLSConfig(ds).cfg.RootCAs = [nil |-> FALSE, certs |-> caCerts(ds)]
                     /\ res[t].kind = "ok"
                     /\ res[t].h.tls.RootCAs = [nil |-> FALSE, certs |-> caCerts(ds)]
                     /\ res[t].h.tls.Certificates = <<>>
                     /\ ptc[ds.Id].h = res[t].h

\* CA pinning alone with CA bytes that hold no PEM block: the call returned
\* the CA parse error.
TLSCAFailureWitness ==
    \E t \in Threads :
        /\ pc[t] = "done" /\ res[t].built
        /\ tlsAuthWithCACert(arg[t]) /\ ~tlsClientAuth(arg[t])
        /\ caBytes(arg[t]) = <<"junk">>
        /\ res[t].kind = "err" /\ res[t].err = ErrCAParse
        /\ ptc = EmptyMap

(***************************************************************************)
(* C9 as claimed: whenever tlsAuthWithCACert is set and the CA bytes yield *)
(* no certificate, empty or absent bytes included, the build fails; it     *)
(* never succeeds without a pinned CA pool.                                *)
(***************************************************************************)
NoSilentCAFallback ==
    \A t \in Threads :
        (pc[t] = "done" /\ res[t].built /\ tlsAuthWithCACert(arg[t])
         /\ caCerts(arg[t]) = {})
        => (res[t].kind = "err" /\ res[t].h = NoHandler)

(***************************************************************************)
(* C10. Mutual TLS failure: with tlsAuth set and a certificate/key pair    *)
(* that is empty, malformed or mismatched, GetTLSConfig returns an error   *)
(* and no configuration, and GetHttpTransport no handler: the key pair     *)
(* error, which differs from the CA parse error; but when                  *)
(* tlsAuthWithCACert is set too and the CA bytes are not empty and hold no *)
(* certificate, the CA parse error.                                        *)
(***************************************************************************)
secretBytes(ds, key) == IF key \in DOMAIN ds.secure THEN ds.secure[key][2] ELSE <<>>

\* The first certificate block and the first key block exist and match.
pairGood(cert, key) ==
    \E i \in DOMAIN cert, j \in DOMAIN key :
        /\ cert[i] \in CertBlocks /\ \A m \in 1..(i - 1) : cert[m] \notin CertBlocks
        /\ key[j] \in KeyBlocks /\ \A m \in 1..(j - 1) : key[m] \notin KeyBlocks
        /\ key[j] = KeyFor(cert[i])

MutualTLSFailure ==
    \A t \in Threads :
        (pc[t] = "done" /\ res[t].built /\ tlsClientAuth(arg[t])
         /\ ~pairGood(secretBytes(arg[t], "tlsClientCert"),
                      secretBytes(arg[t], "tlsClientKey")))
        => LET ds == arg[t]
               caBad == tlsAuthWithCACert(ds) /\ caBytes(ds) # <<>> /\ caCerts(ds) = {}
           IN  /\ ErrKeyPair # ErrCAParse
               /\ GetTLSConfig(ds).err = (IF caBad THEN ErrCAParse ELSE ErrKeyPair)
               /\ GetTLSConfig(ds).cfg = NoTLSConfig
               /\ res[t].kind = "err"
               /\ res[t].err = (IF caBad THEN ErrCAParse ELSE ErrKeyPair)
               /\ res[t].h = NoHandler
               /\ ptc = EmptyMap

\* Client auth alone with certificate A and the key of certificate B: the
\* call returned the key pair error.
MutualTLSFailureWitness ==
    \E t \in Threads :
        /\ pc[t] = "done" /\ res[t].built
        /\ tlsClientAuth(arg[t]) /\ ~tlsAuthWithCACert(arg[t])
        /\ secretBytes(arg[t], "tlsClientCert") = <<"certA">>
        /\ secretBytes(arg[t], "tlsClientKey") = <<"keyB">>
        /\ res[t].kind = "err" /\ res[t].err = ErrKeyPair

(***************************************************************************)
(* C11. TLS flag independence: in each of the four combinations of         *)
(* tlsAuthWithCACert and tlsAuth, a configuration GetTLSConfig returns     *)
(* has RootCAs set only if tlsAuthWithCACert is on and Certificates set    *)
(* only if tlsAuth is on (then exactly one certificate); with both flags   *)
(* off the call succeeds whatever the secrets hold, does not call Decrypt, *)
(* and the configuration carries InsecureSkipVerify and ServerName and     *)
(* nothing else.  The handler GetHttpTransport builds carries that         *)
(* configuration.                                                          *)
(***************************************************************************)
TLSFlagIndependence ==
    \A t \in Threads :
        (pc[t] = "done" /\ res[t].built)
        => LET ds == arg[t]
               r == GetTLSConfig(ds)
               cfg == res[t].h.tls
           IN  /\ (res[t].kind = "ok") <=> (r.err = "")
               /\ res[t].kind = "ok"
                  => /\ cfg = [r.cfg EXCEPT !.Renegotiation = "RenegotiateFreelyAsClient"]
                     /\ ~cfg.RootCAs.nil => tlsAuthWithCACert(ds)
                     /\ cfg.Certificates # <<>> <=> tlsClientAuth(ds)
                     /\ Len(cfg.Certificates) <= 1
                     /\ cfg.InsecureSkipVerify = tlsSkipVerify(ds)
                     /\ cfg.ServerName = serverName(ds)
               /\ (~tlsAuthWithCACert(ds) /\ ~tlsClientAuth(ds))
                  => /\ res[t].kind = "ok"
                     /\ r.ndec = 0
                     /\ res[t].ndec = getCustomHeadersDecrypts(ds)
                     /\ cfg.RootCAs = NilPool
                     /\ cfg.Certificates = <<>>

\* Both flags off, skip-verify on, junk in every TLS secret: the build
\* succeeded with a configuration that has no pool and no certificate.
TLSFlagIndependenceWitness ==
    \E t \in Threads :
        /\ pc[t] = "done" /\ res[t].built /\ res[t].kind = "ok"
        /\ ~arg[t].jsonNil
        /\ ~arg[t].json.tlsAuth /\ ~arg[t].json.tlsAuthWithCACert
        /\ arg[t].json.tlsSkipVerify
        /\ caBytes(arg[t]) = <<"junk">>
        /\ secretBytes(arg[t], "tlsClientCert") = <<"junk">>
        /\ res[t].h.tls.InsecureSkipVerify
        /\ res[t].h.tls.RootCAs = NilPool

(***************************************************************************)
(* C12. Signing namespace allow-list: a build that signs (sigV4Auth set;   *)
(* for GetHttpTransport also setting.SigV4AuthEnabled) for a type of the   *)
(* allow-list does not fail at the namespace, and the handler it returns   *)
(* and caches signs for "es" when the type is elasticsearch or its         *)
(* open-distro variant and for "aps" when it is prometheus; for no other   *)
(* type is there ever a handler with a signer, returned or cached.         *)
(***************************************************************************)
signs(t) == sigV4Auth(arg[t]) /\ (op[t] = "GetHttpTransport2" \/ SigV4AuthEnabled)

SigningNamespace ==
    /\ \A t \in Threads :
          (pc[t] = "done" /\ res[t].built)
          => LET ty == arg[t].Type
                 s == res[t].h.sigv4
             IN  /\ (signs(t) /\ ty \in {"elasticsearch", "grafana-es-open-distro-datasource"})
                    => /\ res[t].kind # "panic"
                       /\ op[t] = "GetHttpTransport" => res[t].kind = "ok"
                       /\ res[t].kind = "ok" => (s.on /\ s.Service = "es")
                 /\ (signs(t) /\ ty = "prometheus")
                    => /\ res[t].kind # "panic"
                       /\ op[t] = "GetHttpTransport" => res[t].kind = "ok"
                       /\ res[t].kind = "ok" => (s.on /\ s.Service = "aps")
                 /\ ty \notin {"elasticsearch", "grafana-es-open-distro-datasource", "prometheus"}
                    => ~s.on
                 /\ ~signs(t) => s = NoSigV4
    /\ \A c \in Caches : \A i \in DOMAIN cacheOf(c) :
          cacheOf(c)[i].h.sigv4.on
          => \E t \in Threads :
                /\ arg[t].Id = i
                /\ arg[t].Type \in {"elasticsearch", "grafana-es-open-distro-datasource",
                                    "prometheus"}
                /\ cacheOf(c)[i].h.sigv4.Service =
                       (IF arg[t].Type = "prometheus" THEN "aps" ELSE "es")

\* Both functions have built and cached a handler for an open-distro data
\* source, each with a signer for "es".
SigningNamespaceWitness ==
    /\ \A t \in Threads :
          /\ pc[t] = "done" /\ res[t].built /\ res[t].kind = "ok"
          /\ arg[t].Type = DS_ES_OPEN_DISTRO
          /\ res[t].h.sigv4.on /\ res[t].h.sigv4.Service = "es"
    /\ 2 \in DOMAIN ptc /\ 2 \in DOMAIN ptc2

(***************************************************************************)
(* C13. Connection timeout selection: getTimeout is the data source's      *)
(* "timeout" entry when JsonData is not nil and the entry is an integer    *)
(* other than zero, and setting.DataProxyTimeout in every other case; the  *)
(* client GetHttpClient / GetHttpClient2 returns has that Timeout, and a   *)
(* transport the call has built has it as its dial timeout                 *)
(* (GetHttpTransport) or its Timeouts.Timeout option (GetHttpTransport2).  *)
(***************************************************************************)
ownTimeout(ds) ==
    /\ ~ds.jsonNil
    /\ ds.json.timeout \notin {<<"absent">>, <<"int", 0>>}
    /\ ds.json.timeout[1] # "string"

TimeoutSelection ==
    \A t \in Threads :
        LET ds == arg[t]
            expected == IF ownTimeout(ds) THEN ds.json.timeout[2] ELSE DataProxyTimeout
        IN  /\ getTimeout(ds) = expected
            /\ (pc[t] = "done" /\ op[t] \in {"GetHttpClient", "GetHttpClient2"})
               => /\ res[t].client.set <=> res[t].kind = "ok"
                  /\ res[t].kind = "ok"
                     => /\ res[t].client.Timeout = expected
                        /\ res[t].client.Transport = res[t].h.hid
                        /\ res[t].built => res[t].h.timeout = expected

\* With the default at 30: an entry of 5 gave both clients and both new
\* transports 5 seconds.
TimeoutSelectionWitness ==
    /\ DataProxyTimeout = 30
    /\ \A t \in Threads :
          /\ pc[t] = "done" /\ res[t].kind = "ok" /\ res[t].built
          /\ ~arg[t].jsonNil /\ arg[t].json.timeout = <<"int", 5>>
          /\ res[t].client.set /\ res[t].client.Timeout = 5
          /\ res[t].h.timeout = 5

(***************************************************************************)
(* C14. Cache entry state machine: an id of a transport cache or of the    *)
(* decryption cache is absent, or holds the value and the Updated          *)
(* timestamp of the last successful build (decrypt) for the id; an entry   *)
(* appears only by a successful build for the id, changes only by a        *)
(* successful build with another timestamp, which replaces timestamp and   *)
(* value together by a new value, and goes away only from the decryption   *)
(* cache, by ClearDSDecryptionCache, which empties it.                     *)
(***************************************************************************)
cacheOfNext(c) == IF c = "ptc" THEN ptc' ELSE ptc2'

\* The last position of L whose entry satisfies P; 0 when there is none.
lastWhere(L, P(_)) ==
    LET S == {j \in DOMAIN L : P(L[j])}
    IN  IF S = {} THEN 0 ELSE CHOOSE j \in S : \A k \in S : k <= j

ValidEntries ==
    /\ \A c \in Caches, i \in Ids :
          LET L == buildLog[c][i]
              last == lastWhere(L, LAMBDA e : e.outcome = "ok")
          IN  IF i \in DOMAIN cacheOf(c)
              THEN /\ last # 0
                   /\ cacheOf(c)[i].updated = L[last].updated
                   /\ cacheOf(c)[i].h.hid = L[last].hid
                   /\ cacheOf(c)[i].h.kind # "nil"
              ELSE last = 0
    /\ \A i \in Ids :
          LET L == decLog[i]
              last == lastWhere(L, LAMBDA e : e.kind = "decrypt")
              clear == lastWhere(L, LAMBDA e : e.kind = "clear")
          IN  IF i \in DOMAIN dsDecryptionCache
              THEN /\ last > clear
                   /\ dsDecryptionCache[i].updated = L[last].updated
                   /\ \E d \in MainDS :
                         /\ d.Id = i /\ d.Updated = dsDecryptionCache[i].updated
                         /\ dsDecryptionCache[i].json = Decrypt(d.secure)
              ELSE last <= clear

EntryTransitions ==
    /\ \A c \in Caches, i \in Ids :
          LET a == cacheOf(c)
              b == cacheOfNext(c)
          IN  /\ i \in DOMAIN a => i \in DOMAIN b
              /\ (i \in DOMAIN b /\ (i \notin DOMAIN a \/ a[i] # b[i]))
                 => /\ \E t \in Threads :
                          /\ building(t, c) /\ arg[t].Id = i
                          /\ pc'[t] = "done" /\ res'[t].kind = "ok"
                          /\ b[i] = [updated |-> arg[t].Updated, h |-> res'[t].h]
                    /\ b[i].h.hid = nextH
                    /\ i \in DOMAIN a => a[i].updated # b[i].updated
    /\ \A i \in Ids :
          LET a == dsDecryptionCache
              b == dsDecryptionCache'
          IN  /\ (i \in DOMAIN a /\ i \notin DOMAIN b)
                 => /\ b = EmptyMap
                    /\ \E t \in Threads : pc[t] = "clear_lock" /\ pc'[t] = "done"
              /\ (i \in DOMAIN b /\ (i \notin DOMAIN a \/ a[i] # b[i]))
                 => /\ \E t \in Threads :
                          /\ decLock = t /\ arg[t].Id = i
                          /\ b[i] = [updated |-> arg[t].Updated,
                                     json |-> Decrypt(arg[t].secure)]
                    /\ i \in DOMAIN a => a[i].updated # b[i].updated

CacheStateMachine == []ValidEntries /\ [][EntryTransitions]_vars

\* The decryption cache entry of id 1 went from absent to timestamp 1, was
\* replaced under timestamp 2 and was cleared; nothing is cached now.
CacheStateMachineWitness ==
    /\ Len(decLog[1]) = 3
    /\ decLog[1][1] = [kind |-> "decrypt", updated |-> 1]
    /\ decLog[1][2] = [kind |-> "decrypt", updated |-> 2]
    /\ decLog[1][3].kind = "clear"
    /\ dsDecryptionCache = EmptyMap

(***************************************************************************)
(* C15. Build serialization: on each transport cache at most one build is  *)
(* in progress at any time, whatever the ids, and the builder holds the    *)
(* cache's lock; while a build runs, a caller that has not got the lock    *)
(* stays where it is and has no result, whether it would hit or miss, and  *)
(* the cache changes only by the step that ends the build.                 *)
(***************************************************************************)
lockOf(c) == IF c = "ptc" THEN ptcLock ELSE ptc2Lock

\* Thread t is at ptc.Lock() / ptc2.Lock().
waiting(t, c) == pc[t] = (IF c = "ptc" THEN "v1_lock" ELSE "v2_lock")

OneBuilder ==
    \A c \in Caches :
        /\ Cardinality({t \in Threads : building(t, c)}) <= 1
        /\ \A t \in Threads : building(t, c) <=> lockOf(c) = t

WaitForBuild ==
    \A c \in Caches, u \in Threads :
        building(u, c)
        => /\ \A t \in Threads \ {u} :
                 waiting(t, c) => (pc'[t] = pc[t] /\ res'[t] = res[t])
           /\ cacheOfNext(c) # cacheOf(c) => pc'[u] = "done"

BuildSerialization == []OneBuilder /\ [][WaitForBuild]_vars

\* One thread is building for id 1 on ptc while the other, called for id 2,
\* is at ptc.Lock().
BuildSerializationWitness ==
    \E t, u \in Threads :
        /\ building(u, "ptc") /\ arg[u].Id = 1
        /\ waiting(t, "ptc") /\ arg[t].Id = 2

(***************************************************************************)
(* C16. Cache independence: a step of ClearDSDecryptionCache empties the   *)
(* decryption cache and changes neither transport cache nor its lock; and  *)
(* a transport call that started after a Clear which came after the last   *)
(* successful build for its id, with the Updated of that build, returns    *)
(* the instance that build stored, as it was built, without building and   *)
(* without a call of Decrypt.                                              *)
(***************************************************************************)
ClearFrame ==
    \A t \in Threads :
        (pc[t] = "clear_lock" /\ pc'[t] = "done")
        => /\ dsDecryptionCache' = EmptyMap
           /\ UNCHANGED <<ptc, ptc2, ptcLock, ptc2Lock, buildLog, nextH>>

HitAfterClear ==
    \A c \in Caches, i \in Ids, t \in Threads :
        LET L == buildLog[c][i]
            last == lastWhere(L, LAMBDA e : e.outcome = "ok")
        IN  (/\ returned(t, c, i)
             /\ last # 0
             /\ L[last].updated = arg[t].Updated
             /\ L[last].clears < res[t].clears)
            => /\ res[t].kind = "ok"
               /\ ~res[t].built
               /\ res[t].ndec = 0
               /\ res[t].h.hid = L[last].hid
               /\ i \in DOMAIN cacheOf(c)
               /\ res[t].h = cacheOf(c)[i].h

CacheIndependence == []HitAfterClear /\ [][ClearFrame]_vars

\* GetHttpTransport built the signing handler of signedES, the decryption
\* cache was cleared, and a later GetHttpTransport call for signedES got that
\* handler, with the credentials and the CA pool of its build, while the
\* decryption cache is empty.
CacheIndependenceWitness ==
    \E t \in Threads :
        /\ returned(t, "ptc", 2) /\ arg[t] = signedES
        /\ res[t].kind = "ok" /\ ~res[t].built /\ res[t].ndec = 0
        /\ res[t].clears = 1
        /\ Len(buildLog["ptc"][2]) = 1
        /\ buildLog["ptc"][2][1].clears = 0
        /\ res[t].h.hid = buildLog["ptc"][2][1].hid
        /\ res[t].h.sigv4 =
               [on |-> TRUE, Service |-> "es", AccessKey |-> <<"ak">>, SecretKey |-> <<"sk">>]
        /\ res[t].h.tls.RootCAs = [nil |-> FALSE, certs |-> {"certA"}]
        /\ dsDecryptionCache = EmptyMap

(***************************************************************************)
(* C17. Decryption cache validity: a lookup of DecryptedValues for id i    *)
(* and timestamp u calls Decrypt if and only if the cache has no entry for *)
(* i or the entry's timestamp is not u; a hit returns the stored map and   *)
(* leaves the cache as it is.  Hence in the sequence of the lookups for i  *)
(* a lookup decrypts exactly when it is the first, or follows a Clear, or  *)
(* follows a lookup with another timestamp: of a run of lookups with one   *)
(* timestamp and no Clear between, the first alone calls Decrypt.          *)
(***************************************************************************)
\* Thread t is inside the body of DecryptedValues (it holds the lock).
inLookup(t) == decLock = t /\ pc[t] \in {"dv_in", "v1_sig", "v2_dv"}

LookupStep ==
    \A t \in Threads :
        (inLookup(t) /\ pc'[t] # pc[t])
        => LET i == arg[t].Id
               u == arg[t].Updated
               miss == i \notin DOMAIN dsDecryptionCache \/ dsDecryptionCache[i].updated # u
               e == decLog'[i][Len(decLog'[i])]
           IN  /\ Len(decLog'[i]) = Len(decLog[i]) + 1
               /\ e.updated = u
               /\ (e.kind = "decrypt") <=> miss
               /\ (res'[t].ndec = res[t].ndec + 1) <=> miss
               /\ (res'[t].ndec = res[t].ndec) <=> ~miss
               /\ ~miss => dsDecryptionCache' = dsDecryptionCache
               /\ (~miss /\ pc[t] = "dv_in")
                  => res'[t].json = dsDecryptionCache[i].json
               /\ (miss /\ pc[t] = "dv_in")
                  => res'[t].json = Decrypt(arg[t].secure)

DecryptOncePerRun ==
    \A i \in Ids :
        LET L == decLog[i]
        IN  \A j \in DOMAIN L :
                L[j].kind # "clear"
                => ((L[j].kind = "decrypt")
                    <=> (j = 1 \/ L[j - 1].kind = "clear" \/ L[j - 1].updated # L[j].updated))

DecryptionCacheValidity == []DecryptOncePerRun /\ [][LookupStep]_vars

\* Three lookups for id 1 with timestamp 1, two of them concurrent: the first
\* decrypted, the others hit.
DecryptionCacheValidityWitness ==
    /\ decLog[1] = <<[kind |-> "decrypt", updated |-> 1], [kind |-> "hit", updated |-> 1],
                     [kind |-> "hit", updated |-> 1]>>
    /\ \E t \in Threads :
          /\ pc[t] = "done" /\ op[t] = "DecryptedValues" /\ res[t].concurrent
          /\ res[t].ndec = 0
          /\ res[t].json = dsDecryptionCache[1].json

(***************************************************************************)
(* C18 as claimed: in one build of a data source that signs, the lookups   *)
(* of the access key and the secret key call Decrypt at most once, so that *)
(* both keys are read from one decrypted map, whatever other threads do    *)
(* with the decryption cache meanwhile.                                    *)
(***************************************************************************)
SigningDecryptOnce ==
    \A t \in Threads :
        (res[t].built /\ sigV4Auth(arg[t])) => res[t].keyDecrypts <= 1

(***************************************************************************)
(* C19. No eviction: no step removes an id from a transport cache, and an  *)
(* entry that changes gets another timestamp; a step that removes an id    *)
(* from the decryption cache is a step of ClearDSDecryptionCache and       *)
(* leaves the cache empty.                                                 *)
(***************************************************************************)
KeysKept ==
    /\ \A c \in Caches :
          /\ DOMAIN cacheOf(c) \subseteq DOMAIN cacheOfNext(c)
          /\ \A i \in DOMAIN cacheOf(c) :
                cacheOfNext(c)[i] # cacheOf(c)[i]
                => cacheOfNext(c)[i].updated # cacheOf(c)[i].updated
    /\ \/ DOMAIN dsDecryptionCache \subseteq DOMAIN dsDecryptionCache'
       \/ /\ dsDecryptionCache' = EmptyMap
          /\ \E t \in Threads :
                op[t] = "ClearDSDecryptionCache" /\ pc[t] = "clear_lock" /\ pc'[t] = "done"

NoEviction == [][KeysKept]_vars

\* ptc holds ids 1 and 2 after three calls, one of them a Clear that emptied
\* the decryption cache the build for id 2 had filled.
NoEvictionWitness ==
    /\ DOMAIN ptc = {1, 2}
    /\ calls = 3
    /\ \A t \in Threads : pc[t] = "done"
    /\ clearsSoFar = 1
    /\ lastWhere(decLog[2], LAMBDA e : e.kind = "decrypt") = 1
    /\ dsDecryptionCache = EmptyMap

(***************************************************************************)
(* C20 as claimed: on the request RoundTrip passes on, every header name   *)
(* of the handler carries the value the handler holds for it, the empty    *)
(* string included, whatever the request had under that name; the headers  *)
(* of the request under other names are as they were; and the handler's    *)
(* headers are those getCustomHeaders read at the build.                   *)
(***************************************************************************)
\* req.Header.Get(name) on headers h: the value under the canonical form.
headerGet(h, name) == MapGet(h, CanonicalMIMEHeaderKey(name))

HeaderInjection ==
    \A t \in Threads :
        sent[t].sent
        => LET hs == res[t].h.headers
               out == sent[t].headers
               req == sent[t].req
               set == {CanonicalMIMEHeaderKey(k) : k \in DOMAIN hs}
           IN  /\ hs = getCustomHeaders(arg[t])
               /\ \A k \in DOMAIN hs :
                     /\ CanonicalMIMEHeaderKey(k) \in DOMAIN out
                     /\ headerGet(out, k) = hs[k]
               /\ DOMAIN out = DOMAIN req \cup set
               /\ \A c \in DOMAIN req \ set : out[c] = req[c]

(***************************************************************************)
(* C21. No retries: a round trip through a handler passes the request to   *)
(* the handler's next round tripper (the signer when the build added one,  *)
(* the base transport otherwise) exactly once and returns what next        *)
(* returned, response or error, unchanged; and the step changes neither    *)
(* transport cache, nor the decryption cache, nor the handler: after a     *)
(* failed round trip the cache still holds the handler, for the same       *)
(* timestamp.                                                              *)
(***************************************************************************)
DelegatesOnce ==
    \A t \in Threads :
        sent[t].sent
        => /\ sent[t].nextCalls = 1
           /\ sent[t].result = sent[t].nextResult
           /\ sent[t].result \in NextResults
           /\ sent[t].next = (IF res[t].h.sigv4.on THEN "signer" ELSE "transport")

TripFrame ==
    \A t \in Threads :
        (~sent[t].sent /\ sent'[t].sent)
        => /\ UNCHANGED <<ptc, ptc2, dsDecryptionCache, ptcLock, ptc2Lock, decLock,
                          buildLog, nextH, res, pc>>
           /\ \A d \in TripDS : cacheHit(ptc', d) <=> cacheHit(ptc, d)

NoRetries == []DelegatesOnce /\ [][TripFrame]_vars

\* A request through the cached handler of signedES went to the signer once
\* and came back with the dial error; the other thread's request through the
\* same instance, which it got from the cache, did too.  The cache holds the
\* handler still.
NoRetriesWitness ==
    \E t, u \in Threads :
        /\ t # u
        /\ arg[t] = signedES /\ arg[u] = signedES
        /\ sent[t].sent /\ sent[u].sent
        /\ res[t].built /\ ~res[u].built
        /\ res[t].h = res[u].h
        /\ sent[t].next = "signer"
        /\ sent[t].nextCalls = 1 /\ sent[u].nextCalls = 1
        /\ sent[t].result = [resp |-> 0, err |-> ErrDial]
        /\ sent[u].result = [resp |-> 0, err |-> ErrDial]
        /\ ptc[2] = [updated |-> signedES.Updated, h |-> res[t].h]

(***************************************************************************)
(* C22. Deadlock freedom: a thread takes a transport cache's lock holding  *)
(* no lock, and the decryption cache's lock holding at most the lock of    *)
(* the transport cache it builds for; the holder of the decryption cache's *)
(* lock waits for no lock; no thread holds the locks of both transport     *)
(* caches; a thread that is not inside a call (it returned, with a result, *)
(* an error or a panic) holds no lock.  Hence every call of                *)
(* GetHttpTransport, GetHttpTransport2, DecryptedValues and                *)
(* ClearDSDecryptionCache that has started completes, and when no call is  *)
(* running no lock is held.                                                *)
(***************************************************************************)
holds(t) ==
    (IF ptcLock = t THEN {"ptc"} ELSE {})
    \cup (IF ptc2Lock = t THEN {"ptc2"} ELSE {})
    \cup (IF decLock = t THEN {"dec"} ELSE {})

LockDiscipline ==
    /\ \A t \in Threads :
          /\ pc[t] \in {"idle", "done", "off"} => holds(t) = {}
          /\ pc[t] \in {"v1_lock", "v2_lock", "dv_lock", "clear_lock"} => holds(t) = {}
          /\ pc[t] = "v1_sig_lock" => holds(t) = {"ptc"}
          /\ (pc[t] = "v2_opts" /\ pending[t] # <<>>) => holds(t) = {"ptc2"}
          /\ "dec" \in holds(t) => pc[t] \in {"dv_in", "v1_sig", "v2_dv"}
          /\ ~({"ptc", "ptc2"} \subseteq holds(t))
    /\ (\A t \in Threads : pc[t] \in {"idle", "done", "off"})
       => (ptcLock = NoThread /\ ptc2Lock = NoThread /\ decLock = NoThread)

DeadlockFreedom ==
    /\ []LockDiscipline
    /\ \A t \in Threads : (pc[t] \notin {"idle", "done"}) ~> (pc[t] = "done")

\* GetHttpTransport2 on signedUnknown ended in the panic of awsServiceNamespace
\* while the other thread, which had called GetHttpTransport2 meanwhile and
\* waited for ptc2's lock, has built and returned; no lock is held.
DeadlockFreedomWitness ==
    \E t, u \in Threads :
        /\ t # u
        /\ pc[t] = "done" /\ op[t] = "GetHttpTransport2" /\ res[t].kind = "panic"
        /\ pc[u] = "done" /\ op[u] = "GetHttpTransport2" /\ res[u].concurrent
        /\ arg[u] = signedES /\ res[u].built /\ res[u].kind = "ok"
        /\ ptcLock = NoThread /\ ptc2Lock = NoThread /\ decLock = NoThread

(***************************************************************************)
(* C23. Last-writer-wins validity: a lookup hits exactly when the entry of *)
(* its id has a timestamp equal to the caller's; an entry with another     *)
(* timestamp, a later one included, makes the call rebuild; when a         *)
(* successful call for id i returns, the entry of i carries that call's    *)
(* timestamp and the value it returned, a rebuilt value being a new one.   *)
(* So no call returns a value built for another timestamp, and of lookups  *)
(* for one id that alternate between two timestamps every one rebuilds.    *)
(***************************************************************************)
LookupByEquality ==
    \A t \in Threads, c \in Caches :
        LET i == arg[t].Id
            old == cacheOf(c)
            new == cacheOfNext(c)
        IN  /\ (waiting(t, c) /\ pc'[t] # pc[t])
               => IF i \in DOMAIN old /\ old[i].updated = arg[t].Updated
                  THEN ~res'[t].built /\ res'[t].kind = "ok" /\ res'[t].h = old[i].h
                  ELSE res'[t].built /\ building(t, c)' /\ res'[t].kind = "none"
            /\ ((waiting(t, c) \/ building(t, c)) /\ pc'[t] = "done" /\ res'[t].kind = "ok")
               => /\ i \in DOMAIN new
                  /\ new[i] = [updated |-> arg[t].Updated, h |-> res'[t].h]
                  /\ (building(t, c) /\ i \in DOMAIN old)
                     => (old[i].updated # arg[t].Updated /\ new[i].h.hid # old[i].h.hid)

DecryptByEquality ==
    \A t \in Threads :
        (inLookup(t) /\ pc'[t] # pc[t])
        => LET i == arg[t].Id
               old == dsDecryptionCache
               new == dsDecryptionCache'
           IN  /\ (res'[t].ndec = res[t].ndec)
                  <=> (i \in DOMAIN old /\ old[i].updated = arg[t].Updated)
               /\ i \in DOMAIN new
               /\ new[i] = [updated |-> arg[t].Updated, json |-> Decrypt(arg[t].secure)]

OwnTimestamp ==
    /\ \A c \in Caches, i \in Ids, t \in Threads :
          (returned(t, c, i) /\ res[t].kind = "ok")
          => \E j \in DOMAIN buildLog[c][i] :
                /\ buildLog[c][i][j].hid = res[t].h.hid
                /\ buildLog[c][i][j].outcome = "ok"
                /\ buildLog[c][i][j].updated = arg[t].Updated
    /\ \A i \in Ids : \A j \in DOMAIN decLog[i] :
          (j > 1 /\ decLog[i][j].kind # "clear" /\ decLog[i][j - 1].kind # "clear"
           /\ decLog[i][j - 1].updated # decLog[i][j].updated)
          => decLog[i][j].kind = "decrypt"

LastWriterWins ==
    []OwnTimestamp /\ [][LookupByEquality /\ DecryptByEquality]_vars

\* Three calls of GetHttpTransport for id 1, with timestamps 1, 2 and 1 again:
\* each built a new handler, and the entry now carries timestamp 1, the earlier
\* of the two, with the handler of the third build.
LastWriterWinsWitness ==
    LET L == buildLog["ptc"][1]
    IN  /\ Len(L) = 3
        /\ \A j \in 1..3 : L[j].outcome = "ok"
        /\ L[1].updated = 1 /\ L[2].updated = 2 /\ L[3].updated = 1
        /\ Cardinality({L[j].hid : j \in 1..3}) = 3
        /\ ptc[1].updated = 1
        /\ ptc[1].h.hid = L[3].hid
        /\ \E t \in Threads :
              returned(t, "ptc", 1) /\ arg[t] = plainA /\ res[t].built /\ res[t].h = ptc[1].h

(***************************************************************************)
(* C24. State unchanged on build error: a build that fails (an error is    *)
(* returned, or the build panics) for an id whose entry carries another    *)
(* timestamp leaves both transport caches exactly as they were, the entry  *)
(* of that id included.  So failed builds with other timestamps do not end *)
(* the validity of an entry: the build never runs again for the timestamp  *)
(* of the last successful build, and a call with that timestamp that finds *)
(* the entry returns its handler.                                          *)
(***************************************************************************)
FailureKeepsCache ==
    \A t \in Threads, c \in Caches :
        (building(t, c) /\ returns(t) /\ res'[t].kind \in {"err", "panic"})
        => /\ cacheOfNext(c) = cacheOf(c)
           /\ ptc' = ptc /\ ptc2' = ptc2
           /\ res'[t].h = NoHandler
           /\ arg[t].Id \in DOMAIN cacheOf(c)
              => /\ cacheOf(c)[arg[t].Id].updated # arg[t].Updated
                 /\ cacheOfNext(c)[arg[t].Id] = cacheOf(c)[arg[t].Id]
           /\ Len(buildLog'[c][arg[t].Id]) = Len(buildLog[c][arg[t].Id]) + 1

ValidThroughFailures ==
    \A c \in Caches, i \in Ids :
        LET L == buildLog[c][i]
            last == lastWhere(L, LAMBDA e : e.outcome = "ok")
        IN  \A k \in DOMAIN L :
                (k > last /\ last # 0)
                => (L[k].outcome # "ok" /\ L[k].updated # L[last].updated)

\* A lookup with the timestamp of the last successful build for its id hits,
\* whatever builds have failed since.
HitThroughFailures ==
    \A t \in Threads, c \in Caches :
        LET L == buildLog[c][arg[t].Id]
            last == lastWhere(L, LAMBDA e : e.outcome = "ok")
        IN  (/\ waiting(t, c) /\ pc'[t] # pc[t]
             /\ last # 0 /\ L[last].updated = arg[t].Updated)
            => /\ ~res'[t].built
               /\ res'[t].kind = "ok"
               /\ res'[t].h.hid = L[last].hid
               /\ res'[t].h = cacheOf(c)[arg[t].Id].h
               /\ buildLog' = buildLog

StateUnchangedOnError ==
    []ValidThroughFailures /\ [][FailureKeepsCache /\ HitThroughFailures]_vars

\* GetHttpTransport built and cached the handler of plainA (id 1, timestamp
\* 1); a call for badCA (id 1, timestamp 2) failed at the CA bundle; a third
\* call, for plainA again, returned the first handler without building.
StateUnchangedOnErrorWitness ==
    LET L == buildLog["ptc"][1]
    IN  /\ Len(L) = 2
        /\ L[1].outcome = "ok" /\ L[1].updated = 1
        /\ L[2].outcome = "err" /\ L[2].updated = 2
        /\ calls = 3
        /\ ptc[1].updated = 1 /\ ptc[1].h.hid = L[1].hid
        /\ \E t, u \in Threads :
              /\ returned(u, "ptc", 1) /\ arg[u] = badCA /\ res[u].kind = "err"
              /\ returned(t, "ptc", 1) /\ arg[t] = plainA
              /\ res[t].kind = "ok" /\ ~res[t].built /\ res[t].h = ptc[1].h

(***************************************************************************)
(* C25. Header name without value: the headers getCustomHeaders gives a    *)
(* handler are the names at the indices below the first gap that have an   *)
(* httpHeaderValue<n> among the decrypted secrets; an index with a name    *)
(* and no value adds nothing and the scan goes on to the indices after it; *)
(* a name carried by several indices below the gap gets the value of the   *)
(* highest of them that has a value.                                       *)
(***************************************************************************)
hasValue(ds, n) == HeaderValueKeys[n] \in DOMAIN ds.secure

valueAt(ds, n) == Decrypt(ds.secure)[HeaderValueKeys[n]]

HeaderWithoutValue ==
    \A t \in Threads :
        (pc[t] = "done" /\ res[t].kind = "ok" /\ res[t].built /\ ~arg[t].jsonNil)
        => LET ds == arg[t]
               hs == res[t].h.headers
               below == 1..(firstGap(ds) - 1)
               carriers(k) == {n \in below : nameAt(ds, n) = k /\ hasValue(ds, n)}
           IN  /\ DOMAIN hs = {nameAt(ds, n) : n \in {m \in below : hasValue(ds, m)}}
               /\ \A k \in DOMAIN hs :
                     \E n \in carriers(k) :
                         /\ \A m \in carriers(k) : m <= n
                         /\ hs[k] = valueAt(ds, n)
               /\ \A n \in below :
                     (~hasValue(ds, n) /\ carriers(nameAt(ds, n)) = {})
                     => nameAt(ds, n) \notin DOMAIN hs

\* X-B at index 1 without a value, X-A at indices 2 and 3 with the values v1
\* and v2: the handler has X-A with v2 and no X-B.
HeaderWithoutValueWitness ==
    \E t \in Threads :
        /\ pc[t] = "done" /\ res[t].kind = "ok" /\ res[t].built /\ ~arg[t].jsonNil
        /\ arg[t].json.hdr =
               ("httpHeaderName1" :> "X-B") @@ ("httpHeaderName2" :> "X-A")
               @@ ("httpHeaderName3" :> "X-A")
        /\ Decrypt(arg[t].secure) =
               ("httpHeaderValue2" :> <<"v1">>) @@ ("httpHeaderValue3" :> <<"v2">>)
        /\ res[t].h.headers = ("X-A" :> <<"v2">>)

=============================================================================
